---- MODULE Spec2Model ----
(***************************************************************************)
(* The two expiring key-value stores of ts-utils:                          *)
(*   LocalStore     (src/src/localStore.ts)  synchronous, on localStorage  *)
(*   createKvStore  (src/src/kvStore.ts)     asynchronous, on IndexedDB    *)
(* Both keep their GC watermark in localStorage.                           *)
(*                                                                         *)
(* Strings are sequences of tokens, so that concatenation, startsWith and  *)
(* slice are what they are in the source.  Time is Date.now() in ms, on a  *)
(* small scale: the clock starts at 1 and ticks by 1.  A LocalStore call   *)
(* is synchronous and reads one clock value; a createKvStore call is a     *)
(* sequence of steps, one per event it waits for, and the clock may tick   *)
(* between them.  The application issues its calls one after another; the  *)
(* gc() that set and getStoredObject start without awaiting runs on.       *)
(*                                                                         *)
(* Spec is that application.  FaultSpec is a createKvStore on a medium     *)
(* whose opens, requests and commits may fail.  ConcSpec, SetsSpec and     *)
(* SweepsSpec are a createKvStore whose calls are issued without awaiting  *)
(* the earlier ones.  ForEachSpec, ItemSpec, ClearSpec and VersionSpec add *)
(* forEach, the item accessors, clear and versioned opens.  ValidatorSpec  *)
(* and IdentSpec apply validateStoredObject and the derivation of the      *)
(* watermark key to inputs of every shape.  StoresSpec and NamespaceSpec   *)
(* put a second store on the same database or localStorage.  ConfigSpec    *)
(* and ItemDefaultSpec carry the shared configuration object.  StepSpec    *)
(* runs LocalStore.forEach one key a step, with a clock that moves inside  *)
(* a call.  SettleSpec is a createKvStore with fair events and a forEach   *)
(* callback that may throw.                                                *)
(***************************************************************************)
EXTENDS Integers, Sequences, FiniteSets, TLC

\* ---------------------------------------------------------------- bounds
MaxDelta == 2        \* the expiry delta given to set is 0 or MaxDelta
MaxCalls == 2        \* calls the application makes in one run

\* The clock runs from 1 to one tick past the latest expiry of an entry
\* written at time 1.
MaxNow == MaxDelta + 1

\* gcIntervalMs given at construction.
GcIntervals == {1, MaxDelta}

\* ---------------------------------------------------------------- values
\* JavaScript values given to set, by name.  "v1" is an ordinary
\* JSON-serializable value; NaN is a value JSON cannot represent (it is
\* written as null); null is written as null.
Values == {"undefined", "null", "NaN", "v1"}

\* LocalStore: the store name, and user keys.  The second key is a legal key
\* that happens to start with the store's own key prefix.
LocalStoreName == <<"s">>
Keys == {<<"a">>, <<"s", ":", "a">>}

\* createKvStore: dbName, dbVersion, storeName as tokens, and record keys.
KvDbName == <<"db">>
KvDbVersion == <<"1">>
KvStoreName == <<"kv">>
KvKeys == {<<"a">>, <<"b">>}

Deltas == {0, MaxDelta}

\* defaultExpiryMs given at construction, in ms: the delta of a set that
\* passes none.
defaultExpiryMs == 1

\* The expiryDeltaMs argument of set: <<>> when it is left out, <<d>> when d
\* is given.
DeltaArgs == {<<>>} \cup {<<d>> : d \in Deltas}

\* The default of the parameter: `expiryDeltaMs = this.defaultExpiryMs` in
\* LocalStore.set, `expiryDeltaMs ?? defaultExpiryMs` in createKvStore.set.
OrDefault(expiryDeltaMs, default) ==
  IF expiryDeltaMs = <<>> THEN default ELSE expiryDeltaMs[1]

VARIABLES
  driver,        \* which store the application of this run uses: "local" /
                 \* "kv", or "kvAll" for a createKvStore whose calls the
                 \* application issues without awaiting the earlier ones
  now,           \* Date.now()
  gcIntervalMs,  \* the store's gcIntervalMs (fixed at construction)
  ls,            \* localStorage: raw key -> text
  db,            \* createKvStore: the connection memo, "unset" or "open"
  idb,           \* the IndexedDB object store: key -> record
  txns,          \* the live IndexedDB transactions, in creation order
  tasks,         \* createKvStore: the async calls in flight, by id
  last,          \* the application's last completed call and what it returned
  ledger,        \* per key, the application's last write: a set or a delete
  probe          \* a value handed to validateStoredObject, and what came back;
                 \* the identities of two stores, and their watermark keys;
                 \* the version of the database and the store's dbVersion

\* ---------------------------------------------------------------- strings
startsWith(k, prefix) ==
  /\ Len(k) >= Len(prefix)
  /\ SubSeq(k, 1, Len(prefix)) = prefix

slice(k, n) == SubSeq(k, n + 1, Len(k))

\* ---------------------------------------------------------------- JSON
\* JSON.stringify of a StoredObject: a property whose value is undefined is
\* left out, NaN is written as null.
JSONStringify(obj) ==
  IF obj.value = "undefined"
  THEN [kind |-> "envelope", hasValue |-> FALSE, value |-> "null",
        storedMs |-> obj.storedMs, expiryMs |-> obj.expiryMs]
  ELSE [kind |-> "envelope", hasValue |-> TRUE,
        value |-> IF obj.value = "NaN" THEN "null" ELSE obj.value,
        storedMs |-> obj.storedMs, expiryMs |-> obj.expiryMs]

\* Texts that are not JSON: some text such as "{oops", and the empty string.
CorruptText == [kind |-> "corrupt"]
EmptyText == [kind |-> "empty"]

\* JSON.parse of a text: an envelope text gives an object (a missing property
\* reads as undefined), a number text gives a number, and a text that is not
\* JSON makes it throw a SyntaxError.
JSONParse(text) ==
  IF text.kind = "envelope"
  THEN [type |-> "object",
        value |-> IF text.hasValue THEN text.value ELSE "undefined",
        storedMs |-> text.storedMs, expiryMs |-> text.expiryMs]
  ELSE IF text.kind = "number"
  THEN [type |-> "number", n |-> text.n]
  ELSE [type |-> "SyntaxError"]

\* String(ms) and Number(str) for the watermark.
NumberToString(ms) == [kind |-> "number", n |-> ms]
StringToNumber(text) == IF text.kind = "number" THEN text.n ELSE 0

\* ---------------------------------------------------------------- localStorage
NoItem == [kind |-> "null"]

getItem(store, k) == IF k \in DOMAIN store THEN store[k] ELSE NoItem

setItem(store, k, text) ==
  [x \in (DOMAIN store) \cup {k} |-> IF x = k THEN text ELSE store[x]]

removeItem(store, k) == [x \in (DOMAIN store) \ {k} |-> store[x]]

EmptyStorage == [x \in {} |-> NoItem]

\* ---------------------------------------------------------------- LocalStore
\* `storeName + ":"`
keyPrefixOf(storeName) == storeName \o <<":">>

keyPrefix == keyPrefixOf(LocalStoreName)

\* Names of a second LocalStore on the same localStorage, and the key it
\* writes: one name shares nothing with LocalStoreName, the other starts with
\* LocalStoreName and ':'.
OtherStoreNames == {<<"t">>, <<"s", ":", "s">>}
OtherKey == <<"a">>

\* `__localStore:lastGcMs:${storeName}`
L_gcMsStorageKeyOf(storeName) ==
  <<"__localStore", ":", "lastGcMs", ":">> \o storeName

L_gcMsStorageKey == L_gcMsStorageKeyOf(LocalStoreName)

\* The raw keys LocalStore.set can write, and the orders in which
\* Object.keys(localStorage) may list them (the medium's order is not
\* specified).  Keys outside the namespace are skipped wherever they stand,
\* so they are listed first.
LRawKeys == {keyPrefix \o k : k \in Keys}

KeyOrders ==
  {sq \in [1..Cardinality(LRawKeys) -> LRawKeys] :
     \A i, j \in DOMAIN sq : i # j => sq[i] # sq[j]}

\* `__kvStore:lastGcMs:${dbName}:v${dbVersion}:${storeName}`, the version
\* given as its decimal text.
Kv_gcMsStorageKeyOf(dbName, dbVersion, storeName) ==
  <<"__kvStore", ":", "lastGcMs", ":">> \o dbName \o <<":", "v">>
     \o dbVersion \o <<":">> \o storeName

Kv_gcMsStorageKey == Kv_gcMsStorageKeyOf(KvDbName, KvDbVersion, KvStoreName)

\* What Object.keys(localStorage) lists: the watermark keys, the raw key of a
\* second store that shares nothing with this one, then the keys of ord.
ObjectKeys(store, ord) ==
  SelectSeq(<<L_gcMsStorageKey, Kv_gcMsStorageKey,
              L_gcMsStorageKeyOf(<<"t">>), L_gcMsStorageKeyOf(<<"s", ":", "s">>),
              keyPrefixOf(<<"t">>) \o OtherKey>> \o ord,
            LAMBDA k : k \in DOMAIN store)

NoObj == [type |-> "undefined"]

\* JavaScript values as validateStoredObject meets them.  type names the kind
\* of value: "undefined", "null", "number", "string" or "object".  An object
\* always has the field value ("undefined" when the property is missing); it
\* has the field storedMs or expiryMs exactly when that property holds a
\* number, and the field key exactly when that property holds a string.  A
\* property that is missing or holds a value of another type is left out.
Falsy(obj) == obj.type \in {"undefined", "null"}

Typeof(obj) == IF obj.type = "null" THEN "object" ELSE obj.type

IsNumber(obj, property) == property \in DOMAIN obj

IsString(obj, property) == property \in DOMAIN obj

L_validateStoredObject(obj, t) ==
  IF \/ Falsy(obj)
     \/ Typeof(obj) # "object"
     \/ obj.value = "undefined"
     \/ ~IsNumber(obj, "storedMs")
     \/ ~IsNumber(obj, "expiryMs")
     \/ t >= obj.expiryMs
  THEN NoObj
  ELSE obj

\* get lastGcMs / set lastGcMs
L_lastGcMs(store) ==
  LET lastGcMsStr == getItem(store, L_gcMsStorageKey)
  IN  IF lastGcMsStr = NoItem THEN 0 ELSE StringToNumber(lastGcMsStr)

L_setLastGcMs(store, ms) == setItem(store, L_gcMsStorageKey, NumberToString(ms))

\* The state a synchronous call works on: the medium, and the number of
\* gcNow() invocations made since the call began.
\* delete(key): the argument is prefixed here.
L_delete(m, key) == [m EXCEPT !.ls = removeItem(@, keyPrefix \o key)]

\* delete(key[]) that stops after the first key.
L_deleteHead(m, keys) == L_delete(m, Head(keys))

\* delete(key[]): the loop over the keys.  delete(key) is the loop of one.
RECURSIVE L_deleteEach(_, _)
L_deleteEach(m, keys) ==
  IF keys = <<>> THEN m ELSE L_deleteEach(L_delete(m, Head(keys)), Tail(keys))

RECURSIVE L_gc(_, _, _, _)
RECURSIVE L_gcNow(_, _, _, _)
RECURSIVE L_getStoredObject(_, _, _, _, _)
RECURSIVE L_forEachFrom(_, _, _, _, _, _, _)

\* getStoredObject(key) at time t.  No text or an empty one returns at once.
\* A text JSON.parse throws on (the catch block), and an invalid or expired
\* entry, are handed to delete() under the raw key k, then gc() is checked.
L_getStoredObject(m, key, t, ord, gi) ==
  LET k == keyPrefix \o key
      stored == getItem(m.ls, k)
  IN  IF stored = NoItem \/ stored = EmptyText
      THEN [m |-> m, obj |-> NoObj]
      ELSE LET parsed == JSONParse(stored)
               obj == L_validateStoredObject(parsed, t)
           IN  IF parsed.type = "SyntaxError"
               THEN [m |-> L_gc(L_delete(m, k), t, ord, gi), obj |-> NoObj]
               ELSE IF obj = NoObj
               THEN [m |-> L_gc(L_delete(m, k), t, ord, gi), obj |-> NoObj]
               ELSE [m |-> m, obj |-> obj]

\* forEach over the remaining keys of the snapshot taken by Object.keys.
\* cb names the callback: "gcNow" deletes what has expired, the others only
\* receive the entry.  out collects the callback's invocations.
L_forEachFrom(m, keys, cb, t, ord, gi, out) ==
  IF keys = <<>>
  THEN [m |-> m, out |-> out]
  ELSE LET k == Head(keys)
       IN  IF ~startsWith(k, keyPrefix)
           THEN L_forEachFrom(m, Tail(keys), cb, t, ord, gi, out)
           ELSE LET key == slice(k, Len(keyPrefix))
                    r == L_getStoredObject(m, key, t, ord, gi)
                IN  IF r.obj = NoObj
                    THEN L_forEachFrom(r.m, Tail(keys), cb, t, ord, gi, out)
                    ELSE L_forEachFrom(
                           IF cb = "gcNow" /\ t >= r.obj.expiryMs
                           THEN L_delete(r.m, key) ELSE r.m,
                           Tail(keys), cb, t, ord, gi,
                           Append(out, [key |-> key, value |-> r.obj.value,
                                        expiryMs |-> r.obj.expiryMs,
                                        storedMs |-> r.obj.storedMs]))

L_forEach(m, cb, t, ord, gi) ==
  L_forEachFrom(m, ObjectKeys(m.ls, ord), cb, t, ord, gi, <<>>)

L_gcNow(m, t, ord, gi) ==
  LET m1 == [ls |-> L_setLastGcMs(m.ls, t), sweeps |-> m.sweeps + 1]
      r == L_forEach(m1, "gcNow", t, ord, gi)
  IN  [r.m EXCEPT !.ls = L_setLastGcMs(@, t)]

\* gc() that takes a missing watermark for an old one.
L_gcUnseeded(m, t, ord, gi) ==
  IF t < L_lastGcMs(m.ls) + gi THEN m ELSE L_gcNow(m, t, ord, gi)

L_gc(m, t, ord, gi) ==
  LET lastGcMs == L_lastGcMs(m.ls)
  IN  IF lastGcMs = 0
      THEN [m EXCEPT !.ls = L_setLastGcMs(@, t)]
      ELSE IF t < lastGcMs + gi
           THEN m
           ELSE L_gcNow(m, t, ord, gi)

\* set that returns the value as the medium gives it back.
L_setReadBack(m, key, value, expiryDeltaMs, t, ord, gi) ==
  LET obj == [value |-> value, storedMs |-> t,
              expiryMs |-> t + OrDefault(expiryDeltaMs, defaultExpiryMs)]
      m1 == [m EXCEPT !.ls = setItem(@, keyPrefix \o key, JSONStringify(obj))]
  IN  [m |-> L_gc(m1, t, ord, gi), value |-> JSONParse(JSONStringify(obj)).value]

\* set that always uses the default expiry.
L_setDefaultExpiry(m, key, value, expiryDeltaMs, t, ord, gi) ==
  LET obj == [value |-> value, storedMs |-> t, expiryMs |-> t + defaultExpiryMs]
      m1 == [m EXCEPT !.ls = setItem(@, keyPrefix \o key, JSONStringify(obj))]
  IN  [m |-> L_gc(m1, t, ord, gi), value |-> value]

L_set(m, key, value, expiryDeltaMs, t, ord, gi) ==
  LET obj == [value |-> value, storedMs |-> t,
              expiryMs |-> t + OrDefault(expiryDeltaMs, defaultExpiryMs)]
      m1 == [m EXCEPT !.ls = setItem(@, keyPrefix \o key, JSONStringify(obj))]
  IN  [m |-> L_gc(m1, t, ord, gi), value |-> value]

\* get that reads the entry of key "a" whatever key it is given.
L_getOther(m, key, t, ord, gi) ==
  LET r == L_getStoredObject(m, <<"a">>, t, ord, gi)
  IN  [m |-> r.m, obj |-> r.obj,
       value |-> IF r.obj = NoObj THEN "undefined" ELSE r.obj.value]

L_get(m, key, t, ord, gi) ==
  LET r == L_getStoredObject(m, key, t, ord, gi)
  IN  [m |-> r.m, obj |-> r.obj,
       value |-> IF r.obj = NoObj THEN "undefined" ELSE r.obj.value]

L_size(m, t, ord, gi) ==
  LET r == L_forEach(m, "size", t, ord, gi)
  IN  [m |-> r.m, count |-> Len(r.out), out |-> r.out]

\* ---------------------------------------------------------------- the application's calls
\* What the application saw of a call: the operation and its arguments, what
\* it returned (ret: a value, "undefined" when absent; storedMs/expiryMs of a
\* returned StoredObject; count for size and forEach), when it was called
\* (t0) and when it returned (t1), the number of gcNow() invocations it made
\* (sweeps), whether getStoredObject found an entry that was invalid or
\* expired (purged), the keys given to delete (keys), and what forEach handed
\* to the callback of size, in order (seen).  For createKvStore also:
\* whether the promise of the call rejected (rejected), whether the write
\* transaction of the call aborted (aborted), and whether an indexedDB.open of
\* this or an earlier call failed (openFailed).
NoCall ==
  [n |-> 0, st |-> "none", op |-> "none", key |-> <<>>, arg |-> "undefined",
   delta |-> 0, ret |-> "undefined", storedMs |-> 0, expiryMs |-> 0,
   count |-> 0, t0 |-> 0, t1 |-> 0, sweeps |-> 0, purged |-> FALSE,
   keys |-> <<>>, seen |-> <<>>, rejected |-> FALSE, aborted |-> FALSE,
   openFailed |-> FALSE, item |-> <<>>]

\* The application's last write to a key.
NoWrite == [op |-> "none", value |-> "undefined", storedMs |-> 0, expiryMs |-> 0]

WroteSet(value, t, delta) ==
  [op |-> "set", value |-> value, storedMs |-> t, expiryMs |-> t + delta]

WroteDelete == [NoWrite EXCEPT !.op = "delete"]

\* The text under the key was put there by other code.
WroteOther == [NoWrite EXCEPT !.op = "other"]

\* The ledger after a delete of the keys of a list.
Deletes(keys) ==
  [k \in DOMAIN ledger |->
     IF \E n \in DOMAIN keys : keys[n] = k THEN WroteDelete ELSE ledger[k]]

\* The arguments of delete: one key, or an array of two distinct keys.
KeyLists(S) ==
  {<<k>> : k \in S} \cup {sq \in [1..2 -> S] : sq[1] # sq[2]}

Returned(c) ==
  [c EXCEPT !.n = last.n + 1, !.openFailed = last.openFailed \/ c.openFailed]

MayCall == last.n < MaxCalls

StartL == [ls |-> ls, sweeps |-> 0]

KvUnchanged == UNCHANGED <<db, idb, txns, tasks>>

Found(store, key) == getItem(store, keyPrefix \o key) # NoItem

LSet(key, value, expiryDeltaMs, ord) ==
  /\ driver = "local" /\ MayCall
  /\ LET r == L_set(StartL, key, value, expiryDeltaMs, now, ord, gcIntervalMs)
         delta == OrDefault(expiryDeltaMs, defaultExpiryMs)
     IN  /\ ls' = r.m.ls
         /\ last' = Returned([NoCall EXCEPT !.st = "L", !.op = "set", !.key = key,
                        !.arg = value, !.delta = delta, !.ret = r.value,
                        !.t0 = now, !.t1 = now, !.sweeps = r.m.sweeps])
         /\ ledger' = [ledger EXCEPT ![key] = WroteSet(value, now, delta)]
  /\ UNCHANGED <<probe, driver, now, gcIntervalMs>> /\ KvUnchanged

LGetStoredObject(key, ord) ==
  /\ driver = "local" /\ MayCall
  /\ LET r == L_getStoredObject(StartL, key, now, ord, gcIntervalMs)
     IN  /\ ls' = r.m.ls
         /\ last' = Returned(
              IF r.obj = NoObj
              THEN [NoCall EXCEPT !.st = "L", !.op = "getStoredObject", !.key = key,
                        !.t0 = now, !.t1 = now, !.sweeps = r.m.sweeps,
                        !.purged = Found(ls, key)]
              ELSE [NoCall EXCEPT !.st = "L", !.op = "getStoredObject", !.key = key,
                        !.ret = r.obj.value, !.storedMs = r.obj.storedMs,
                        !.expiryMs = r.obj.expiryMs,
                        !.t0 = now, !.t1 = now, !.sweeps = r.m.sweeps])
  /\ UNCHANGED <<probe, driver, now, gcIntervalMs, ledger>> /\ KvUnchanged

LGet(key, ord) ==
  /\ driver = "local" /\ MayCall
  /\ LET r == L_get(StartL, key, now, ord, gcIntervalMs)
     IN  /\ ls' = r.m.ls
         /\ last' = Returned([NoCall EXCEPT !.st = "L", !.op = "get", !.key = key,
                        !.ret = r.value, !.t0 = now, !.t1 = now,
                        !.sweeps = r.m.sweeps,
                        !.purged = Found(ls, key) /\ r.obj = NoObj])
  /\ UNCHANGED <<probe, driver, now, gcIntervalMs, ledger>> /\ KvUnchanged

LDelete(keys) ==
  /\ driver = "local" /\ MayCall
  /\ ls' = L_deleteEach(StartL, keys).ls
  /\ last' = Returned([NoCall EXCEPT !.st = "L", !.op = "delete", !.keys = keys,
                        !.t0 = now, !.t1 = now])
  /\ ledger' = Deletes(keys)
  /\ UNCHANGED <<probe, driver, now, gcIntervalMs>> /\ KvUnchanged

LSize(ord) ==
  /\ driver = "local" /\ MayCall
  /\ LET r == L_size(StartL, now, ord, gcIntervalMs)
     IN  /\ ls' = r.m.ls
         /\ last' = Returned([NoCall EXCEPT !.st = "L", !.op = "size",
                        !.count = r.count, !.seen = r.out,
                        !.t0 = now, !.t1 = now,
                        !.sweeps = r.m.sweeps])
  /\ UNCHANGED <<probe, driver, now, gcIntervalMs, ledger>> /\ KvUnchanged

LGc(ord) ==
  /\ driver = "local" /\ MayCall
  /\ LET m == L_gc(StartL, now, ord, gcIntervalMs)
     IN  /\ ls' = m.ls
         /\ last' = Returned([NoCall EXCEPT !.st = "L", !.op = "gc",
                        !.t0 = now, !.t1 = now, !.sweeps = m.sweeps])
  /\ UNCHANGED <<probe, driver, now, gcIntervalMs, ledger>> /\ KvUnchanged

LGcNow(ord) ==
  /\ driver = "local" /\ MayCall
  /\ LET m == L_gcNow(StartL, now, ord, gcIntervalMs)
     IN  /\ ls' = m.ls
         /\ last' = Returned([NoCall EXCEPT !.st = "L", !.op = "gcNow",
                        !.t0 = now, !.t1 = now, !.sweeps = m.sweeps])
  /\ UNCHANGED <<probe, driver, now, gcIntervalMs, ledger>> /\ KvUnchanged

\* ---------------------------------------------------------------- createKvStore
\* The empty string, a valid IndexedDB key.
EmptyKey == <<>>

\* The record keys in the order an IndexedDB cursor visits them.
KvKeyOrder == << EmptyKey, <<"a">>, <<"b">> >>

TaskIds == 1..(MaxCalls + 1)

\* The validator of createKvStore without its test of the key.
Kv_validateAnyKey(obj, t) == L_validateStoredObject(obj, t)

Kv_validateStoredObject(obj, t) ==
  IF \/ Falsy(obj)
     \/ Typeof(obj) # "object"
     \/ ~IsString(obj, "key")
     \/ obj.value = "undefined"
     \/ ~IsNumber(obj, "storedMs")
     \/ ~IsNumber(obj, "expiryMs")
     \/ t >= obj.expiryMs
  THEN NoObj
  ELSE obj

Kv_getLastGcMs(store) ==
  LET lastGcMsStr == getItem(store, Kv_gcMsStorageKey)
  IN  IF lastGcMsStr = NoItem THEN 0 ELSE StringToNumber(lastGcMsStr)

Kv_setLastGcMs(store, ms) == setItem(store, Kv_gcMsStorageKey, NumberToString(ms))

\* An async call in flight.  pc names the event the call waits for: "put",
\* "get" (request success), "scan" (cursor success), "del", "gsoDel", "gcDel"
\* (completion of the delete transaction of delete, getStoredObject, gcNow);
\* opening: it still waits for indexedDB.open and then creates the
\* transaction want.  user: the application awaits it (a gc() started by set
\* or getStoredObject is not awaited).  sweeping: it is inside gcNow().
NoTask ==
  [op |-> "none", user |-> FALSE, pc |-> "none", opening |-> FALSE,
   sweeping |-> FALSE, key |-> <<>>, arg |-> "undefined", delta |-> 0,
   t0 |-> 0, w0 |-> 0, want |-> <<>>, count |-> 0, keysToDelete |-> <<>>,
   sweeps |-> 0, seen |-> <<>>, aborted |-> FALSE, item |-> <<>>]

FreeId == CHOOSE i \in TaskIds : i \notin DOMAIN tasks

NoUserTask == \A id \in DOMAIN tasks : ~tasks[id].user

\* transact(mode, callback) of the call `id`: await getOrCreateDb(), then
\* create the transaction and issue the callback's requests.
transact(id, task, mode, reqs, queue) ==
  IF db = "open"
  THEN [task |-> task,
        txns |-> Append(queue, [owner |-> id, mode |-> mode, reqs |-> reqs])]
  ELSE [task |-> [task EXCEPT !.opening = TRUE,
                              !.want = <<[mode |-> mode, reqs |-> reqs]>>],
        txns |-> queue]

\* IndexedDB runs a transaction when no earlier live transaction of the same
\* scope conflicts with it: read-only transactions run together, a
\* read-write transaction runs alone.
Runnable(i) ==
  \A j \in 1..(i - 1) : txns[j].mode = "readonly" /\ txns[i].mode = "readonly"

DropTxn(queue, i) == SubSeq(queue, 1, i - 1) \o SubSeq(queue, i + 1, Len(queue))

\* The request at the head of transaction i has been served and the call is
\* no longer listening on that transaction.  A transaction with no request
\* left and no listener completes unobserved, so it leaves the queue here.
Served(queue, i) ==
  IF Len(queue[i].reqs) = 1
  THEN DropTxn(queue, i)
  ELSE [queue EXCEPT ![i].reqs = Tail(@), ![i].owner = 0]

\* Delete requests that remove nothing.
DeletedNothing(store, reqs) == store

\* The object store after the delete requests reqs, in order.
RECURSIVE Deleted(_, _)
Deleted(store, reqs) ==
  IF reqs = <<>> THEN store
  ELSE Deleted(removeItem(store, Head(reqs).key), Tail(reqs))

RemoveTask(ts, id) == [x \in (DOMAIN ts) \ {id} |-> ts[x]]

\* gcNow() without its first watermark write.
Kv_gcNowStartUnguarded(id, task, store, queue) ==
  LET r == transact(id,
                    [task EXCEPT !.pc = "scan", !.sweeping = TRUE, !.w0 = now,
                                 !.count = 0, !.keysToDelete = <<>>,
                                 !.sweeps = 1],
                    "readonly", <<[type |-> "cursor", after |-> 0]>>, queue)
  IN  [ls |-> store, task |-> r.task, txns |-> r.txns, sweep |-> TRUE]

\* The synchronous part of gcNow(): the first watermark write, then forEach
\* opens its cursor.
Kv_gcNowStart(id, task, store, queue) ==
  LET r == transact(id,
                    [task EXCEPT !.pc = "scan", !.sweeping = TRUE, !.w0 = now,
                                 !.count = 0, !.keysToDelete = <<>>,
                                 !.sweeps = 1],
                    "readonly", <<[type |-> "cursor", after |-> 0]>>, queue)
  IN  [ls |-> Kv_setLastGcMs(store, now), task |-> r.task, txns |-> r.txns,
       sweep |-> TRUE]

\* gc() that is due one millisecond late.
Kv_gcStartLate(id, task, store, queue) ==
  LET lastGcMs == Kv_getLastGcMs(store)
  IN  IF lastGcMs = 0
      THEN [ls |-> Kv_setLastGcMs(store, now), task |-> task, txns |-> queue,
            sweep |-> FALSE]
      ELSE IF now <= lastGcMs + gcIntervalMs
           THEN [ls |-> store, task |-> task, txns |-> queue, sweep |-> FALSE]
           ELSE Kv_gcNowStart(id, task, store, queue)

\* gc() whose sweep starts before gcNow() has written the watermark.
Kv_gcStartNoWrite(id, task, store, queue) ==
  LET lastGcMs == Kv_getLastGcMs(store)
  IN  IF lastGcMs = 0
      THEN [ls |-> Kv_setLastGcMs(store, now), task |-> task, txns |-> queue,
            sweep |-> FALSE]
      ELSE IF now < lastGcMs + gcIntervalMs
           THEN [ls |-> store, task |-> task, txns |-> queue, sweep |-> FALSE]
           ELSE Kv_gcNowStartUnguarded(id, task, store, queue)

\* The synchronous part of gc().
Kv_gcStart(id, task, store, queue) ==
  LET lastGcMs == Kv_getLastGcMs(store)
  IN  IF lastGcMs = 0
      THEN [ls |-> Kv_setLastGcMs(store, now), task |-> task, txns |-> queue,
            sweep |-> FALSE]
      ELSE IF now < lastGcMs + gcIntervalMs
           THEN [ls |-> store, task |-> task, txns |-> queue, sweep |-> FALSE]
           ELSE Kv_gcNowStart(id, task, store, queue)

\* A gc() that nobody awaits, started from the handler of the call `id`: when
\* it sweeps, the sweep goes on under the same id after the call returned.
Unawaited(task) == [task EXCEPT !.op = "gc", !.user = FALSE]

AfterGc(id, g) ==
  /\ ls' = g.ls
  /\ txns' = g.txns
  /\ tasks' = IF g.sweep THEN [tasks EXCEPT ![id] = g.task]
                         ELSE RemoveTask(tasks, id)

KvCall(task) ==
  [NoTask EXCEPT !.op = task.op, !.user = TRUE, !.pc = task.pc,
                 !.key = task.key, !.arg = task.arg, !.delta = task.delta,
                 !.t0 = now]

KvResult(task) ==
  [NoCall EXCEPT !.st = "K", !.op = task.op, !.key = task.key,
                 !.arg = task.arg, !.delta = task.delta, !.t0 = task.t0,
                 !.t1 = now, !.sweeps = task.sweeps, !.aborted = task.aborted,
                 !.item = task.item]

\* The application may issue a call: under "kv" when its last call is over,
\* under "kvAll" at any time (as in Promise.all([store.set(..), ..])).
KvMayCall ==
  /\ driver \in {"kv", "kvAll"}
  /\ driver = "kv" => NoUserTask
  /\ last.n + Cardinality({id \in DOMAIN tasks : tasks[id].user}) < MaxCalls

\* The synchronous part of set(key, value, expiryDeltaMs) as the call `id`.
Kv_set(id, key, value, expiryDeltaMs) ==
  LET stored == [type |-> "object", key |-> key, value |-> value,
                 storedMs |-> now,
                 expiryMs |-> now + OrDefault(expiryDeltaMs, defaultExpiryMs)]
  IN  transact(id,
               KvCall([op |-> "set", pc |-> "put", key |-> key,
                       arg |-> value,
                       delta |-> OrDefault(expiryDeltaMs, defaultExpiryMs)]),
               "readwrite", <<[type |-> "put", rec |-> stored]>>, txns)

KvSet(key, value, expiryDeltaMs) ==
  /\ KvMayCall
  /\ LET id == FreeId
         r == Kv_set(id, key, value, expiryDeltaMs)
     IN  /\ tasks' = (id :> r.task) @@ tasks
         /\ txns' = r.txns
  /\ UNCHANGED <<probe, driver, now, gcIntervalMs, ls, db, idb, last, ledger>>

\* The synchronous part of delete(keys) as the call `id`.
Kv_delete(id, keys) ==
  LET call == KvCall([op |-> "delete", pc |-> "del", key |-> <<>>,
                      arg |-> "undefined", delta |-> 0])
  IN  transact(id, [call EXCEPT !.keysToDelete = keys], "readwrite",
               [n \in DOMAIN keys |-> [type |-> "delete", key |-> keys[n]]],
               txns)

KvDelete(keys) ==
  /\ KvMayCall
  /\ LET id == FreeId
         r == Kv_delete(id, keys)
     IN  /\ tasks' = (id :> r.task) @@ tasks
         /\ txns' = r.txns
  /\ UNCHANGED <<probe, driver, now, gcIntervalMs, ls, db, idb, last, ledger>>

\* get(key) awaits getStoredObject(key) and unwraps the value.
Kv_getStoredObject(id, op, key) ==
  transact(id,
           KvCall([op |-> op, pc |-> "get", key |-> key,
                   arg |-> "undefined", delta |-> 0]),
           "readonly", <<[type |-> "get", key |-> key]>>, txns)

KvGetStoredObject(op, key) ==
  /\ KvMayCall
  /\ LET id == FreeId
         r == Kv_getStoredObject(id, op, key)
     IN  /\ tasks' = (id :> r.task) @@ tasks
         /\ txns' = r.txns
  /\ UNCHANGED <<probe, driver, now, gcIntervalMs, ls, db, idb, last, ledger>>

KvSize ==
  /\ KvMayCall
  /\ LET id == FreeId
         r == transact(id,
                 KvCall([op |-> "size", pc |-> "scan", key |-> <<>>,
                         arg |-> "undefined", delta |-> 0]),
                 "readonly", <<[type |-> "cursor", after |-> 0]>>, txns)
     IN  /\ tasks' = (id :> r.task) @@ tasks
         /\ txns' = r.txns
  /\ UNCHANGED <<probe, driver, now, gcIntervalMs, ls, db, idb, last, ledger>>

KvGc ==
  /\ KvMayCall
  /\ LET id == FreeId
         call == KvCall([op |-> "gc", pc |-> "none", key |-> <<>>,
                         arg |-> "undefined", delta |-> 0])
         g == Kv_gcStart(id, call, ls, txns)
     IN  /\ ls' = g.ls
         /\ txns' = g.txns
         /\ IF g.sweep
            THEN tasks' = (id :> g.task) @@ tasks /\ last' = last
            ELSE tasks' = tasks /\ last' = Returned(KvResult(call))
  /\ UNCHANGED <<probe, driver, now, gcIntervalMs, db, idb, ledger>>

KvGcNow ==
  /\ KvMayCall
  /\ LET id == FreeId
         call == KvCall([op |-> "gcNow", pc |-> "none", key |-> <<>>,
                         arg |-> "undefined", delta |-> 0])
         g == Kv_gcNowStart(id, call, ls, txns)
     IN  /\ ls' = g.ls
         /\ txns' = g.txns
         /\ tasks' = (id :> g.task) @@ tasks
  /\ UNCHANGED <<probe, driver, now, gcIntervalMs, db, idb, last, ledger>>

\* indexedDB.open succeeded for the call `id`: the memo is set and the call
\* goes on to create its transaction.
KvOpenSuccess(id) ==
  /\ id \in DOMAIN tasks /\ tasks[id].opening
  /\ db' = "open"
  /\ txns' = Append(txns, [owner |-> id, mode |-> tasks[id].want[1].mode,
                           reqs |-> tasks[id].want[1].reqs])
  /\ tasks' = [tasks EXCEPT ![id].opening = FALSE, ![id].want = <<>>]
  /\ UNCHANGED <<probe, driver, now, gcIntervalMs, ls, idb, last, ledger>>

\* set: the put request succeeded.  The handler resolves with the value and
\* then calls gc() without awaiting it.
KvPutSuccess(i) ==
  /\ i \in DOMAIN txns /\ Runnable(i) /\ txns[i].reqs # <<>>
  /\ Head(txns[i].reqs).type = "put"
  /\ LET id == txns[i].owner
         rec == Head(txns[i].reqs).rec
         g == Kv_gcStart(id, Unawaited(tasks[id]), ls, Served(txns, i))
     IN  /\ idb' = setItem(idb, rec.key, rec)
         /\ AfterGc(id, g)
         /\ last' = Returned([KvResult(tasks[id]) EXCEPT
                                !.ret = IF tasks[id].item = <<>>
                                        THEN tasks[id].arg ELSE "undefined",
                                !.sweeps = IF g.sweep THEN 1 ELSE 0])
         /\ ledger' = [ledger EXCEPT ![rec.key] =
                          WroteSet(tasks[id].arg, tasks[id].t0, tasks[id].delta)]
  /\ UNCHANGED <<probe, driver, now, gcIntervalMs, db>>

\* getStoredObject: the get request succeeded.  A missing record and a valid
\* one are returned; an invalid or expired one is deleted first.
KvGetSuccess(i) ==
  /\ i \in DOMAIN txns /\ Runnable(i) /\ txns[i].reqs # <<>>
  /\ Head(txns[i].reqs).type = "get"
  /\ LET id == txns[i].owner
         task == tasks[id]
         stored == getItem(idb, task.key)
         valid == IF stored = NoItem THEN NoObj
                  ELSE Kv_validateStoredObject(stored, now)
     IN  IF stored = NoItem
         THEN /\ last' = Returned(KvResult(task))
              /\ tasks' = RemoveTask(tasks, id)
              /\ txns' = Served(txns, i)
         ELSE IF valid # NoObj
         THEN /\ last' = Returned(
                   IF task.op = "get"
                   THEN [KvResult(task) EXCEPT !.ret = valid.value]
                   ELSE [KvResult(task) EXCEPT !.ret = valid.value,
                            !.storedMs = valid.storedMs,
                            !.expiryMs = valid.expiryMs])
              /\ tasks' = RemoveTask(tasks, id)
              /\ txns' = Served(txns, i)
         ELSE LET r == transact(id, [task EXCEPT !.pc = "gsoDel"], "readwrite",
                                <<[type |-> "delete", key |-> task.key]>>,
                                Served(txns, i))
              IN  /\ last' = last
                  /\ tasks' = [tasks EXCEPT ![id] = r.task]
                  /\ txns' = r.txns
  /\ UNCHANGED <<probe, driver, now, gcIntervalMs, ls, db, idb, ledger>>

\* The first position after `after` that holds a record, 0 when none.
NextCursor(store, after) ==
  LET S == {j \in (after + 1)..Len(KvKeyOrder) : KvKeyOrder[j] \in DOMAIN store}
  IN  IF S = {} THEN 0 ELSE CHOOSE j \in S : \A k \in S : j <= k

\* What gcNow() did: the keys of its batch delete.
SweepResult(task) == [KvResult(task) EXCEPT !.keys = task.keysToDelete]

\* The end of gcNow() without the second watermark write.
KvSweepDoneUnmarked(id, task) ==
  /\ ls' = ls
  /\ tasks' = RemoveTask(tasks, id)
  /\ last' = IF task.user THEN Returned(SweepResult(task)) ELSE last

\* The end of gcNow(): the second watermark write.
KvSweepDone(id, task) ==
  /\ ls' = Kv_setLastGcMs(ls, now)
  /\ tasks' = RemoveTask(tasks, id)
  /\ last' = IF task.user THEN Returned(SweepResult(task)) ELSE last

\* A sweep that collects every record it is called back for.
CollectsAll(value, expiryMs, t) == TRUE

\* The callback of gcNow at time t: the key is collected when the value is
\* undefined or the entry has expired.
Collects(value, expiryMs, t) == value = "undefined" \/ t >= expiryMs

\* forEach: the cursor request succeeded.  With a record under the cursor the
\* record is validated, the callback is awaited and the cursor continues;
\* with none forEach resolves.  The callback of gcNow reads the clock after
\* the validation did (tcb).
KvCursorSuccess(i, tcb) ==
  /\ i \in DOMAIN txns /\ Runnable(i) /\ txns[i].reqs # <<>>
  /\ Head(txns[i].reqs).type = "cursor"
  /\ LET id == txns[i].owner
         task == tasks[id]
         j == NextCursor(idb, Head(txns[i].reqs).after)
     IN  IF j # 0
         THEN LET valid == Kv_validateStoredObject(idb[KvKeyOrder[j]], now)
                  called == KvKeyOrder[j] # EmptyKey /\ valid # NoObj
                  collect == /\ called /\ task.sweeping
                             /\ Collects(valid.value, valid.expiryMs, tcb)
              IN  /\ ~(called /\ task.op = "forEach"
                         /\ task.arg \in {"timer", "throws"})
                  /\ tcb = now \/ (called /\ task.sweeping /\ tcb <= MaxNow)
                  /\ now' = tcb
                  /\ tasks' = [tasks EXCEPT
                       ![id].count = IF called THEN @ + 1 ELSE @,
                       ![id].seen =
                          IF called /\ ~task.sweeping
                          THEN Append(@, [key |-> valid.key, value |-> valid.value,
                                          expiryMs |-> valid.expiryMs,
                                          storedMs |-> valid.storedMs])
                          ELSE @,
                       ![id].keysToDelete =
                          IF collect THEN Append(@, KvKeyOrder[j]) ELSE @]
                  /\ txns' = [txns EXCEPT
                       ![i].reqs = <<[type |-> "cursor", after |-> j]>>]
                  /\ UNCHANGED <<ls, last>>
         ELSE /\ tcb = now
              /\ now' = now
              /\ IF ~task.sweeping
                 THEN /\ last' = Returned([KvResult(task) EXCEPT
                                              !.count = task.count,
                                              !.seen = task.seen])
                      /\ tasks' = RemoveTask(tasks, id)
                      /\ txns' = Served(txns, i)
                      /\ ls' = ls
                 ELSE IF task.keysToDelete # <<>>
                 THEN /\ txns' = Append(Served(txns, i),
                           [owner |-> id, mode |-> "readwrite",
                            reqs |-> [n \in DOMAIN task.keysToDelete |->
                                        [type |-> "delete",
                                         key |-> task.keysToDelete[n]]]])
                      /\ tasks' = [tasks EXCEPT ![id].pc = "gcDel"]
                      /\ UNCHANGED <<ls, last>>
                 ELSE /\ txns' = Served(txns, i)
                      /\ KvSweepDone(id, task)
  /\ UNCHANGED <<probe, driver, gcIntervalMs, db, idb, ledger>>

\* A delete transaction: its delete requests are served (nothing listens to
\* them) and it completes.  delete() listens for the completion: the delete
\* of the application returns, getStoredObject goes on to gc() and returns
\* absent, gcNow writes the watermark again.
KvDeleteComplete(i) ==
  /\ i \in DOMAIN txns /\ Runnable(i) /\ txns[i].reqs # <<>>
  /\ Head(txns[i].reqs).type = "delete"
  /\ idb' = Deleted(idb, txns[i].reqs)
  /\ LET id == txns[i].owner
         queue == DropTxn(txns, i)
     IN  IF tasks[id].pc = "del"
         THEN /\ txns' = queue
              /\ tasks' = RemoveTask(tasks, id)
              /\ last' = Returned([KvResult(tasks[id]) EXCEPT
                                     !.keys = tasks[id].keysToDelete])
              /\ ls' = ls
              /\ ledger' = Deletes(tasks[id].keysToDelete)
         ELSE IF tasks[id].pc \in {"gsoDel", "gsoDel2"}
         THEN LET g == Kv_gcStart(id, Unawaited(tasks[id]), ls, queue)
              IN  /\ AfterGc(id, g)
                  /\ last' = Returned([KvResult(tasks[id]) EXCEPT
                                         !.sweeps = IF g.sweep THEN 1 ELSE 0,
                                         !.purged = TRUE])
                  /\ ledger' = ledger
         ELSE /\ txns' = queue
              /\ KvSweepDone(id, tasks[id])
              /\ ledger' = ledger
  /\ UNCHANGED <<probe, driver, now, gcIntervalMs, db>>

\* The clock advances between calls.
Tick ==
  /\ now < MaxNow
  /\ now' = now + 1
  /\ UNCHANGED <<probe, driver, gcIntervalMs, ls, last, ledger>> /\ KvUnchanged

vars ==
  <<driver, now, gcIntervalMs, ls, db, idb, txns, tasks, last, ledger, probe>>

NoProbe == [obj |-> NoObj, ran |-> FALSE, out |-> NoObj]

\* What an earlier session at time 1 may have left behind: nothing, or the
\* entry of set("a", "v1", MaxDelta), and no watermark or the one gc() wrote.
PersistedEntry ==
  [value |-> "v1", storedMs |-> 1, expiryMs |-> 1 + MaxDelta]

\* The text an earlier session, or other code, may have left under the raw
\* key of "a" in localStorage.
PersistedTexts == {JSONStringify(PersistedEntry), CorruptText, EmptyText}

InitMedium(drivers) ==
  /\ driver \in drivers
  /\ now = 1
  /\ gcIntervalMs \in GcIntervals
  /\ \E entry \in BOOLEAN, mark \in BOOLEAN, text \in PersistedTexts :
       LET gcKey == IF driver = "local" THEN L_gcMsStorageKey
                                        ELSE Kv_gcMsStorageKey
           marks == IF mark THEN setItem(EmptyStorage, gcKey, NumberToString(1))
                            ELSE EmptyStorage
       IN  /\ driver # "local" => text = JSONStringify(PersistedEntry)
           /\ ~entry => text = JSONStringify(PersistedEntry)
           /\ ls = IF driver = "local" /\ entry
                   THEN setItem(marks, keyPrefix \o <<"a">>, text)
                   ELSE marks
           /\ idb = IF driver # "local" /\ entry
                    THEN setItem(EmptyStorage, <<"a">>,
                                 [type |-> "object", key |-> <<"a">>,
                                  value |-> PersistedEntry.value,
                                  storedMs |-> PersistedEntry.storedMs,
                                  expiryMs |-> PersistedEntry.expiryMs])
                    ELSE EmptyStorage
  /\ db = "unset"
  /\ txns = <<>>
  /\ tasks = EmptyStorage
  /\ last = NoCall
  /\ ledger = [k \in Keys \cup KvKeys \cup {EmptyKey} |->
                IF k = <<"a">> /\ (Found(ls, k) \/ k \in DOMAIN idb)
                THEN IF getItem(ls, keyPrefix \o k) \in {CorruptText, EmptyText}
                     THEN WroteOther
                     ELSE WroteSet(PersistedEntry.value, PersistedEntry.storedMs,
                                   MaxDelta)
                ELSE NoWrite]

InitOf(drivers) == InitMedium(drivers) /\ probe = NoProbe

Init == InitOf({"local", "kv"})

Next ==
  \/ Tick
  \/ \E key \in Keys, value \in Values, delta \in DeltaArgs, ord \in KeyOrders :
       LSet(key, value, delta, ord)
  \/ \E key \in Keys, ord \in KeyOrders : LGetStoredObject(key, ord)
  \/ \E key \in Keys, ord \in KeyOrders : LGet(key, ord)
  \/ \E keys \in KeyLists(Keys) : LDelete(keys)
  \/ \E ord \in KeyOrders : LSize(ord)
  \/ \E ord \in KeyOrders : LGc(ord)
  \/ \E ord \in KeyOrders : LGcNow(ord)
  \/ \E key \in KvKeys, value \in Values, delta \in DeltaArgs :
       KvSet(key, value, delta)
  \/ \E keys \in KeyLists(KvKeys) : KvDelete(keys)
  \/ \E key \in KvKeys : KvGetStoredObject("get", key)
  \/ \E key \in KvKeys : KvGetStoredObject("getStoredObject", key)
  \/ KvSize
  \/ KvGc
  \/ KvGcNow
  \/ \E id \in TaskIds : KvOpenSuccess(id)
  \/ \E i \in 1..Len(txns) : KvPutSuccess(i)
  \/ \E i \in 1..Len(txns) : KvGetSuccess(i)
  \/ \E i \in 1..Len(txns), tcb \in {now, now + 1} : KvCursorSuccess(i, tcb)
  \/ \E i \in 1..Len(txns) : KvDeleteComplete(i)

Spec == Init /\ [][Next]_vars

\* ---------------------------------------------------------------- a failing medium
\* What the application sees of a call whose promise rejected.
Rejected(task) == [KvResult(task) EXCEPT !.rejected = TRUE]

\* The transaction of the call `id` aborted and the call rejects.  The
\* rejection reaches the application when it awaits the call; the rejection
\* of a gc() nobody awaits is lost.
Reject(id) ==
  /\ tasks' = RemoveTask(tasks, id)
  /\ last' = IF tasks[id].user
             THEN Returned([Rejected(tasks[id]) EXCEPT !.aborted = TRUE])
             ELSE last

\* indexedDB.open that sets the memo although the request failed.
KvOpenErrorMemo(id) ==
  /\ id \in DOMAIN tasks /\ tasks[id].opening
  /\ db' = "open"
  /\ tasks' = RemoveTask(tasks, id)
  /\ last' = IF tasks[id].user
             THEN Returned([Rejected(tasks[id]) EXCEPT !.openFailed = TRUE])
             ELSE last
  /\ UNCHANGED <<probe, driver, now, gcIntervalMs, ls, idb, txns, ledger>>

\* indexedDB.open failed for the call `id`: the request's onerror rejects the
\* promise getOrCreateDb awaits, so db is not assigned and transact throws.
KvOpenError(id) ==
  /\ id \in DOMAIN tasks /\ tasks[id].opening
  /\ tasks' = RemoveTask(tasks, id)
  /\ last' = IF tasks[id].user
             THEN Returned([Rejected(tasks[id]) EXCEPT !.openFailed = TRUE])
             ELSE last
  /\ UNCHANGED <<probe, driver, now, gcIntervalMs, ls, db, idb, txns, ledger>>

\* The request at the head of transaction i reports an error: its onerror
\* rejects the promise of transact, and the transaction aborts.  The call
\* rejects, except that getStoredObject awaits its delete inside the try
\* block: the catch block deletes once more.
KvRequestError(i) ==
  /\ i \in DOMAIN txns /\ Runnable(i) /\ txns[i].reqs # <<>>
  /\ txns[i].owner \in DOMAIN tasks
  /\ LET id == txns[i].owner
         queue == DropTxn(txns, i)
     IN  IF tasks[id].pc = "gsoDel"
         THEN LET r == transact(id, [tasks[id] EXCEPT !.pc = "gsoDel2",
                                                      !.aborted = TRUE],
                                "readwrite",
                                <<[type |-> "delete", key |-> tasks[id].key]>>,
                                queue)
              IN  /\ tasks' = [tasks EXCEPT ![id] = r.task]
                  /\ txns' = r.txns
                  /\ last' = last
         ELSE /\ txns' = queue
              /\ Reject(id)
  /\ UNCHANGED <<probe, driver, now, gcIntervalMs, ls, db, idb, ledger>>

\* set: the put request succeeded, so the handler resolved with the value and
\* called gc(); then the transaction failed to commit and aborted.  The write
\* is rolled back; onabort calls reject on a promise that is already resolved.
KvCommitAbort(i) ==
  /\ i \in DOMAIN txns /\ Runnable(i) /\ txns[i].reqs # <<>>
  /\ Head(txns[i].reqs).type = "put"
  /\ LET id == txns[i].owner
         g == Kv_gcStart(id, Unawaited(tasks[id]), ls, Served(txns, i))
     IN  /\ idb' = idb
         /\ AfterGc(id, g)
         /\ last' = Returned([KvResult(tasks[id]) EXCEPT
                                !.ret = IF tasks[id].item = <<>>
                                        THEN tasks[id].arg ELSE "undefined",
                                !.sweeps = IF g.sweep THEN 1 ELSE 0,
                                !.aborted = TRUE])
         /\ ledger' = [ledger EXCEPT ![tasks[id].key] =
                          WroteSet(tasks[id].arg, tasks[id].t0, tasks[id].delta)]
  /\ UNCHANGED <<probe, driver, now, gcIntervalMs, db>>

\* One createKvStore whose medium may fail.  Every set writes "v1".
FaultInit == InitOf({"kv"})

FaultNext ==
  \/ Tick
  \/ \E key \in KvKeys, delta \in DeltaArgs : KvSet(key, "v1", delta)
  \/ \E key \in KvKeys : KvDelete(<<key>>)
  \/ \E key \in KvKeys : KvGetStoredObject("get", key)
  \/ \E key \in KvKeys : KvGetStoredObject("getStoredObject", key)
  \/ KvSize
  \/ KvGc
  \/ KvGcNow
  \/ \E id \in TaskIds : KvOpenSuccess(id)
  \/ \E id \in TaskIds : KvOpenError(id)
  \/ \E i \in 1..Len(txns) : KvPutSuccess(i)
  \/ \E i \in 1..Len(txns) : KvGetSuccess(i)
  \/ \E i \in 1..Len(txns), tcb \in {now, now + 1} : KvCursorSuccess(i, tcb)
  \/ \E i \in 1..Len(txns) : KvDeleteComplete(i)
  \/ \E i \in 1..Len(txns) : KvRequestError(i)
  \/ \E i \in 1..Len(txns) : KvCommitAbort(i)

FaultSpec == FaultInit /\ [][FaultNext]_vars

\* ---------------------------------------------------------------- forEach of the application
\* The callbacks an application hands to forEach: "resolved" returns nothing
\* or a promise that settles before the event handler's task is over,
\* "timer" returns a promise that settles in a later task (it awaits a timer,
\* a fetch, a call of a store).
Callbacks == {"resolved", "timer"}

KvForEach(callback) ==
  /\ KvMayCall
  /\ LET id == FreeId
         r == transact(id,
                 KvCall([op |-> "forEach", pc |-> "scan", key |-> <<>>,
                         arg |-> callback, delta |-> 0]),
                 "readonly", <<[type |-> "cursor", after |-> 0]>>, txns)
     IN  /\ tasks' = (id :> r.task) @@ tasks
         /\ txns' = r.txns
  /\ UNCHANGED <<probe, driver, now, gcIntervalMs, ls, db, idb, last, ledger>>

\* forEach: the cursor request succeeded on a live record and the callback
\* returned a promise that is still pending when the handler's task ends.
\* The transaction has no request left: IndexedDB commits it.
KvCursorCallback(i) ==
  /\ i \in DOMAIN txns /\ Runnable(i) /\ txns[i].reqs # <<>>
  /\ Head(txns[i].reqs).type = "cursor"
  /\ LET id == txns[i].owner
         task == tasks[id]
         j == NextCursor(idb, Head(txns[i].reqs).after)
     IN  /\ j # 0
         /\ task.op = "forEach" /\ task.arg = "timer"
         /\ KvKeyOrder[j] # EmptyKey
         /\ LET valid == Kv_validateStoredObject(idb[KvKeyOrder[j]], now)
            IN  /\ valid # NoObj
                /\ tasks' = [tasks EXCEPT
                     ![id].pc = "callback",
                     ![id].count = @ + 1,
                     ![id].seen = Append(@, [key |-> valid.key,
                                             value |-> valid.value,
                                             expiryMs |-> valid.expiryMs,
                                             storedMs |-> valid.storedMs])]
         /\ txns' = DropTxn(txns, i)
  /\ UNCHANGED <<probe, driver, now, gcIntervalMs, ls, db, idb, last, ledger>>

\* The callback's promise settles: the handler goes on to cursor.continue(),
\* which throws TransactionInactiveError inside the async handler.  Nothing
\* resolves or rejects the promise of forEach.
KvCallbackSettled(id) ==
  /\ id \in DOMAIN tasks /\ tasks[id].pc = "callback"
  /\ tasks' = [tasks EXCEPT ![id].pc = "stuck"]
  /\ UNCHANGED <<probe, driver, now, gcIntervalMs, ls, db, idb, txns, last,
                 ledger>>

\* forEach: the cursor request succeeded on a live record and the callback
\* threw, or returned a promise that rejects.  The exception leaves the async
\* handler as the rejection of the promise the handler returns, which nobody
\* holds: cursor.continue() is not reached, reject is not called, and the
\* transaction, with no request left, commits.
KvCursorCallbackThrows(i) ==
  /\ i \in DOMAIN txns /\ Runnable(i) /\ txns[i].reqs # <<>>
  /\ Head(txns[i].reqs).type = "cursor"
  /\ LET id == txns[i].owner
         task == tasks[id]
         j == NextCursor(idb, Head(txns[i].reqs).after)
     IN  /\ j # 0
         /\ task.op = "forEach" /\ task.arg = "throws"
         /\ KvKeyOrder[j] # EmptyKey
         /\ Kv_validateStoredObject(idb[KvKeyOrder[j]], now) # NoObj
         /\ tasks' = [tasks EXCEPT ![id].pc = "stuck", ![id].count = @ + 1]
         /\ txns' = DropTxn(txns, i)
  /\ UNCHANGED <<probe, driver, now, gcIntervalMs, ls, db, idb, last, ledger>>

\* One createKvStore whose application iterates.  Every set writes "v1" with
\* the delta MaxDelta.
ForEachNext ==
  \/ Tick
  \/ \E key \in KvKeys \cup {EmptyKey} : KvSet(key, "v1", <<MaxDelta>>)
  \/ \E key \in KvKeys \cup {EmptyKey} : KvGetStoredObject("get", key)
  \/ \E callback \in Callbacks : KvForEach(callback)
  \/ \E id \in TaskIds : KvOpenSuccess(id)
  \/ \E i \in 1..Len(txns) : KvPutSuccess(i)
  \/ \E i \in 1..Len(txns) : KvGetSuccess(i)
  \/ \E i \in 1..Len(txns), tcb \in {now, now + 1} : KvCursorSuccess(i, tcb)
  \/ \E i \in 1..Len(txns) : KvCursorCallback(i)
  \/ \E id \in TaskIds : KvCallbackSettled(id)
  \/ \E i \in 1..Len(txns) : KvDeleteComplete(i)

ForEachSpec == FaultInit /\ [][ForEachNext]_vars

\* One createKvStore whose application iterates with a callback that returns
\* ("resolved") or throws ("throws"), on a medium that serves every request:
\* an event that can fire does fire.  Every set writes "v1" with the delta
\* MaxDelta.
SettleNext ==
  \/ Tick
  \/ \E key \in KvKeys : KvSet(key, "v1", <<MaxDelta>>)
  \/ \E callback \in {"resolved", "throws"} : KvForEach(callback)
  \/ \E id \in TaskIds : KvOpenSuccess(id)
  \/ \E i \in 1..Len(txns) : KvPutSuccess(i)
  \/ \E i \in 1..Len(txns), tcb \in {now, now + 1} : KvCursorSuccess(i, tcb)
  \/ \E i \in 1..Len(txns) : KvCursorCallbackThrows(i)
  \/ \E i \in 1..Len(txns) : KvDeleteComplete(i)

SettleSpec == FaultInit /\ [][SettleNext]_vars /\ WF_vars(SettleNext)

\* ---------------------------------------------------------------- concurrent calls
\* One createKvStore instance whose calls are issued without awaiting the
\* earlier ones.  Every set writes "v1" with the delta MaxDelta.
ConcInit == InitOf({"kvAll"})

ConcNext ==
  \/ Tick
  \/ \E key \in KvKeys : KvSet(key, "v1", <<MaxDelta>>)
  \/ \E keys \in KeyLists(KvKeys) : KvDelete(keys)
  \/ \E key \in KvKeys : KvGetStoredObject("get", key)
  \/ \E key \in KvKeys : KvGetStoredObject("getStoredObject", key)
  \/ KvSize
  \/ KvGc
  \/ KvGcNow
  \/ \E id \in TaskIds : KvOpenSuccess(id)
  \/ \E i \in 1..Len(txns) : KvPutSuccess(i)
  \/ \E i \in 1..Len(txns) : KvGetSuccess(i)
  \/ \E i \in 1..Len(txns), tcb \in {now, now + 1} : KvCursorSuccess(i, tcb)
  \/ \E i \in 1..Len(txns) : KvDeleteComplete(i)

ConcSpec == ConcInit /\ [][ConcNext]_vars


\* One createKvStore whose application issues its sets together, as in
\* Promise.all([store.set(..), store.set(..)]), before any of them returned.
SetsNext ==
  \/ Tick
  \/ \E key \in KvKeys, value \in {"v1", "null"}, delta \in DeltaArgs :
        last.n = 0 /\ KvSet(key, value, delta)
  \/ \E id \in TaskIds : KvOpenSuccess(id)
  \/ \E i \in 1..Len(txns) : KvPutSuccess(i)
  \/ \E i \in 1..Len(txns), tcb \in {now, now + 1} : KvCursorSuccess(i, tcb)
  \/ \E i \in 1..Len(txns) : KvDeleteComplete(i)

SetsSpec == ConcInit /\ [][SetsNext]_vars

\* One createKvStore whose application starts its gcNow() calls together,
\* before any of them returned.
SweepsNext ==
  \/ Tick
  \/ last.n = 0 /\ KvGcNow
  \/ \E id \in TaskIds : KvOpenSuccess(id)
  \/ \E i \in 1..Len(txns), tcb \in {now, now + 1} : KvCursorSuccess(i, tcb)
  \/ \E i \in 1..Len(txns) : KvDeleteComplete(i)

SweepsSpec == ConcInit /\ [][SweepsNext]_vars

\* ---------------------------------------------------------------- item accessors
\* The key of the accessors.  Their expiryMs argument is <<>> when it is
\* left out and <<d>> when d is given.
ItemKey == <<"a">>

\* localStoreItem(key, expiryMs, store): expiryMs && durationOrMsToMs(expiryMs)
\* keeps 0, and the constructor's parameter defaults to the expiry of the
\* shared configuration, LocalStoreConfig.expiryMs (config.expiryMs).
localStoreItemOf(key, expiryMs, config) ==
  [key |-> key, defaultExpiryMs |-> OrDefault(expiryMs, config.expiryMs)]

\* The accessor of a store that was constructed with no options: the
\* store's default expiry is the configured one.
localStoreItem(key, expiryMs) ==
  localStoreItemOf(key, expiryMs, [expiryMs |-> defaultExpiryMs])

\* kvStoreItem(key, expiryMs, store): defaultExpiryMs stays undefined when
\* expiryMs is left out.
kvStoreItem(key, expiryMs) == [key |-> key, defaultExpiryMs |-> expiryMs]

\* LocalStoreItem.set that leaves the expiry to the store.
Item_setStoreDefault(item, m, value, expiryDeltaMs, t, ord, gi) ==
  L_set(m, item.key, value, expiryDeltaMs, t, ord, gi).m

\* LocalStoreItem.set(value, expiryDeltaMs = this.defaultExpiryMs): void.
Item_set(item, m, value, expiryDeltaMs, t, ord, gi) ==
  L_set(m, item.key, value,
        <<OrDefault(expiryDeltaMs, item.defaultExpiryMs)>>, t, ord, gi).m

Item_getStoredObject(item, m, t, ord, gi) ==
  L_getStoredObject(m, item.key, t, ord, gi)

Item_get(item, m, t, ord, gi) == L_get(m, item.key, t, ord, gi)

Item_delete(item, m) == L_deleteEach(m, <<item.key>>)

\* item.set(value) of the accessor item that was created with the argument
\* expiryMs.
LItemSetAs(item, expiryMs, value, ord) ==
  /\ driver = "local" /\ MayCall
  /\ LET m == Item_set(item, StartL, value, <<>>, now, ord, gcIntervalMs)
     IN  /\ ls' = m.ls
         /\ last' = Returned([NoCall EXCEPT !.st = "L", !.op = "set",
                        !.key = item.key, !.arg = value,
                        !.delta = item.defaultExpiryMs, !.item = <<expiryMs>>,
                        !.t0 = now, !.t1 = now, !.sweeps = m.sweeps])
         /\ ledger' = [ledger EXCEPT ![item.key] =
                          WroteSet(value, now, item.defaultExpiryMs)]
  /\ UNCHANGED <<probe, driver, now, gcIntervalMs>> /\ KvUnchanged

LItemSet(expiryMs, value, ord) ==
  LItemSetAs(localStoreItem(ItemKey, expiryMs), expiryMs, value, ord)

LItemGetStoredObject(expiryMs, ord) ==
  /\ driver = "local" /\ MayCall
  /\ LET item == localStoreItem(ItemKey, expiryMs)
         r == Item_getStoredObject(item, StartL, now, ord, gcIntervalMs)
         call == [NoCall EXCEPT !.st = "L", !.op = "getStoredObject",
                    !.key = item.key, !.item = <<expiryMs>>,
                    !.t0 = now, !.t1 = now, !.sweeps = r.m.sweeps]
     IN  /\ ls' = r.m.ls
         /\ last' = Returned(
              IF r.obj = NoObj
              THEN [call EXCEPT !.purged = Found(ls, item.key)]
              ELSE [call EXCEPT !.ret = r.obj.value,
                                !.storedMs = r.obj.storedMs,
                                !.expiryMs = r.obj.expiryMs])
  /\ UNCHANGED <<probe, driver, now, gcIntervalMs, ledger>> /\ KvUnchanged

LItemGet(expiryMs, ord) ==
  /\ driver = "local" /\ MayCall
  /\ LET item == localStoreItem(ItemKey, expiryMs)
         r == Item_get(item, StartL, now, ord, gcIntervalMs)
     IN  /\ ls' = r.m.ls
         /\ last' = Returned([NoCall EXCEPT !.st = "L", !.op = "get",
                        !.key = item.key, !.item = <<expiryMs>>,
                        !.ret = r.value, !.t0 = now, !.t1 = now,
                        !.sweeps = r.m.sweeps,
                        !.purged = Found(ls, item.key) /\ r.obj = NoObj])
  /\ UNCHANGED <<probe, driver, now, gcIntervalMs, ledger>> /\ KvUnchanged

LItemDelete(expiryMs) ==
  /\ driver = "local" /\ MayCall
  /\ LET item == localStoreItem(ItemKey, expiryMs)
     IN  /\ ls' = Item_delete(item, StartL).ls
         /\ last' = Returned([NoCall EXCEPT !.st = "L", !.op = "delete",
                        !.keys = <<item.key>>, !.item = <<expiryMs>>,
                        !.t0 = now, !.t1 = now])
         /\ ledger' = Deletes(<<item.key>>)
  /\ UNCHANGED <<probe, driver, now, gcIntervalMs>> /\ KvUnchanged

\* kvStoreItem: set awaits store.set(key, value, expiryDeltaMs ??
\* defaultExpiryMs) and returns nothing; getStoredObject, get and delete
\* await the store's operation on the key.
KvItemSet(expiryMs, value) ==
  /\ KvMayCall
  /\ LET item == kvStoreItem(ItemKey, expiryMs)
         id == FreeId
         r == Kv_set(id, item.key, value, item.defaultExpiryMs)
     IN  /\ tasks' = (id :> [r.task EXCEPT !.item = <<expiryMs>>]) @@ tasks
         /\ txns' = r.txns
  /\ UNCHANGED <<probe, driver, now, gcIntervalMs, ls, db, idb, last, ledger>>

KvItemGetStoredObject(expiryMs, op) ==
  /\ KvMayCall
  /\ LET item == kvStoreItem(ItemKey, expiryMs)
         id == FreeId
         r == Kv_getStoredObject(id, op, item.key)
     IN  /\ tasks' = (id :> [r.task EXCEPT !.item = <<expiryMs>>]) @@ tasks
         /\ txns' = r.txns
  /\ UNCHANGED <<probe, driver, now, gcIntervalMs, ls, db, idb, last, ledger>>

KvItemDelete(expiryMs) ==
  /\ KvMayCall
  /\ LET item == kvStoreItem(ItemKey, expiryMs)
         id == FreeId
         r == Kv_delete(id, <<item.key>>)
     IN  /\ tasks' = (id :> [r.task EXCEPT !.item = <<expiryMs>>]) @@ tasks
         /\ txns' = r.txns
  /\ UNCHANGED <<probe, driver, now, gcIntervalMs, ls, db, idb, last, ledger>>

\* An application that uses a store and accessors of the key "a" of that
\* store, awaiting every call.  Every set writes "v1".
ItemNext ==
  \/ Tick
  \/ \E delta \in DeltaArgs, ord \in KeyOrders : LSet(ItemKey, "v1", delta, ord)
  \/ LDelete(<<ItemKey>>)
  \/ \E expiryMs \in DeltaArgs, ord \in KeyOrders :
        LItemSet(expiryMs, "v1", ord)
  \/ \E expiryMs \in DeltaArgs, ord \in KeyOrders :
        LItemGetStoredObject(expiryMs, ord)
  \/ \E expiryMs \in DeltaArgs, ord \in KeyOrders : LItemGet(expiryMs, ord)
  \/ \E expiryMs \in DeltaArgs : LItemDelete(expiryMs)
  \/ \E delta \in DeltaArgs : KvSet(ItemKey, "v1", delta)
  \/ KvDelete(<<ItemKey>>)
  \/ \E expiryMs \in DeltaArgs : KvItemSet(expiryMs, "v1")
  \/ \E expiryMs \in DeltaArgs :
        KvItemGetStoredObject(expiryMs, "getStoredObject")
  \/ \E expiryMs \in DeltaArgs : KvItemGetStoredObject(expiryMs, "get")
  \/ \E expiryMs \in DeltaArgs : KvItemDelete(expiryMs)
  \/ \E id \in TaskIds : KvOpenSuccess(id)
  \/ \E i \in 1..Len(txns) : KvPutSuccess(i)
  \/ \E i \in 1..Len(txns) : KvGetSuccess(i)
  \/ \E i \in 1..Len(txns), tcb \in {now, now + 1} : KvCursorSuccess(i, tcb)
  \/ \E i \in 1..Len(txns) : KvDeleteComplete(i)

ItemSpec == Init /\ [][ItemNext]_vars

\* A store of either kind that was constructed with the default expiry
\* defaultExpiryMs, from the shared configuration or from its options, and
\* accessors of its key "a" created with no expiry.  probe.obj is the shared
\* configuration.  Every set writes "v1".
ItemDefaultInit ==
  /\ InitMedium({"local", "kv"})
  /\ \E expiryMs \in {defaultExpiryMs, MaxDelta} :
       probe = [NoProbe EXCEPT !.obj = [expiryMs |-> expiryMs]]

\* item.set(value) of localStoreItem(key, undefined, store) or of
\* new LocalStoreItem(key, undefined, store).
LItemSetConfigured(value, ord) ==
  LItemSetAs(localStoreItemOf(ItemKey, <<>>, probe.obj), <<>>, value, ord)

ItemDefaultNext ==
  \/ Tick
  \/ \E ord \in KeyOrders : LItemSetConfigured("v1", ord)
  \/ \E ord \in KeyOrders : LItemGetStoredObject(<<>>, ord)
  \/ KvItemSet(<<>>, "v1")
  \/ KvItemGetStoredObject(<<>>, "getStoredObject")
  \/ \E id \in TaskIds : KvOpenSuccess(id)
  \/ \E i \in 1..Len(txns) : KvPutSuccess(i)
  \/ \E i \in 1..Len(txns) : KvGetSuccess(i)
  \/ \E i \in 1..Len(txns), tcb \in {now, now + 1} : KvCursorSuccess(i, tcb)
  \/ \E i \in 1..Len(txns) : KvDeleteComplete(i)

ItemDefaultSpec == ItemDefaultInit /\ [][ItemDefaultNext]_vars

\* ---------------------------------------------------------------- clear
\* LocalStore.clear() that removes what forEach reports.
L_clearLive(m, keys, t, ord, gi) ==
  LET r == L_forEach(m, "size", t, ord, gi)
  IN  L_deleteEach(r.m, [n \in DOMAIN r.out |-> r.out[n].key])

\* LocalStore.clear(): the loop over the snapshot of Object.keys.
RECURSIVE L_clear(_, _, _, _, _)
L_clear(m, keys, t, ord, gi) ==
  IF keys = <<>> THEN m
  ELSE L_clear(IF startsWith(Head(keys), keyPrefix)
               THEN [m EXCEPT !.ls = removeItem(@, Head(keys))]
               ELSE m,
               Tail(keys), t, ord, gi)

\* The ledger after a clear that removed the keys of S.
Cleared(S) == [k \in DOMAIN ledger |-> IF k \in S THEN WroteDelete ELSE ledger[k]]

LClear(ord) ==
  /\ driver = "local" /\ MayCall
  /\ LET m == L_clear(StartL, ObjectKeys(ls, ord), now, ord, gcIntervalMs)
     IN  /\ ls' = m.ls
         /\ last' = Returned([NoCall EXCEPT !.st = "L", !.op = "clear",
                        !.t0 = now, !.t1 = now, !.sweeps = m.sweeps])
  /\ ledger' = Cleared({k \in DOMAIN ledger : Found(ls, k)})
  /\ UNCHANGED <<probe, driver, now, gcIntervalMs>> /\ KvUnchanged

\* clear() of createKvStore: one clear request in a read-write transaction.
KvClear ==
  /\ KvMayCall
  /\ LET id == FreeId
         r == transact(id,
                 KvCall([op |-> "clear", pc |-> "clear", key |-> <<>>,
                         arg |-> "undefined", delta |-> 0]),
                 "readwrite", <<[type |-> "clear"]>>, txns)
     IN  /\ tasks' = (id :> r.task) @@ tasks
         /\ txns' = r.txns
  /\ UNCHANGED <<probe, driver, now, gcIntervalMs, ls, db, idb, last, ledger>>

\* clear: the clear request succeeded and the handler resolves.
KvClearSuccess(i) ==
  /\ i \in DOMAIN txns /\ Runnable(i) /\ txns[i].reqs # <<>>
  /\ Head(txns[i].reqs).type = "clear"
  /\ LET id == txns[i].owner
     IN  /\ idb' = EmptyStorage
         /\ txns' = Served(txns, i)
         /\ tasks' = RemoveTask(tasks, id)
         /\ last' = Returned(KvResult(tasks[id]))
  /\ ledger' = Cleared(DOMAIN idb)
  /\ UNCHANGED <<probe, driver, now, gcIntervalMs, ls, db>>

\* An application that clears its store, awaiting every call.  Every set
\* writes "v1" with the delta MaxDelta.
ClearNext ==
  \/ Tick
  \/ \E key \in Keys, ord \in KeyOrders : LSet(key, "v1", <<MaxDelta>>, ord)
  \/ \E key \in Keys, ord \in KeyOrders : LGet(key, ord)
  \/ \E ord \in KeyOrders : LSize(ord)
  \/ \E ord \in KeyOrders : LClear(ord)
  \/ \E key \in KvKeys : KvSet(key, "v1", <<MaxDelta>>)
  \/ \E key \in KvKeys : KvGetStoredObject("get", key)
  \/ KvSize
  \/ KvClear
  \/ \E id \in TaskIds : KvOpenSuccess(id)
  \/ \E i \in 1..Len(txns) : KvPutSuccess(i)
  \/ \E i \in 1..Len(txns) : KvGetSuccess(i)
  \/ \E i \in 1..Len(txns), tcb \in {now, now + 1} : KvCursorSuccess(i, tcb)
  \/ \E i \in 1..Len(txns) : KvDeleteComplete(i)
  \/ \E i \in 1..Len(txns) : KvClearSuccess(i)

ClearSpec == Init /\ [][ClearNext]_vars

\* ---------------------------------------------------------------- the validators alone
\* The values a validator may be handed: undefined, null, a number, a string,
\* and objects with any of value, storedMs, expiryMs and key missing or of
\* another type.
OneOrNone(property, S) ==
  {<<>>} \cup {[p \in {property} |-> x] : x \in S}

Shapes ==
  {[type |-> "undefined"], [type |-> "null"], [type |-> "number", n |-> 1],
   [type |-> "string"]}
  \cup {[type |-> "object", value |-> v] @@ s @@ e @@ k :
          v \in Values,
          s \in OneOrNone("storedMs", {1}),
          e \in OneOrNone("expiryMs", 1..(MaxNow + 1)),
          k \in OneOrNone("key", {<<"a">>})}

ValidatorInit ==
  /\ driver \in {"local", "kv"}
  /\ now \in 1..MaxNow
  /\ gcIntervalMs = 1
  /\ ls = EmptyStorage /\ idb = EmptyStorage
  /\ db = "unset" /\ txns = <<>> /\ tasks = EmptyStorage
  /\ last = NoCall
  /\ ledger = [k \in {} |-> NoWrite]
  /\ \E obj \in Shapes : probe = [NoProbe EXCEPT !.obj = obj]

L_Validate ==
  /\ driver = "local" /\ ~probe.ran
  /\ probe' = [probe EXCEPT !.ran = TRUE,
                             !.out = L_validateStoredObject(probe.obj, now)]
  /\ UNCHANGED <<driver, now, gcIntervalMs, ls, last, ledger>> /\ KvUnchanged

Kv_Validate ==
  /\ driver = "kv" /\ ~probe.ran
  /\ probe' = [probe EXCEPT !.ran = TRUE,
                             !.out = Kv_validateStoredObject(probe.obj, now)]
  /\ UNCHANGED <<driver, now, gcIntervalMs, ls, last, ledger>> /\ KvUnchanged

ValidatorNext == L_Validate \/ Kv_Validate

ValidatorSpec == ValidatorInit /\ [][ValidatorNext]_vars


\* ---------------------------------------------------------------- database versions
\* The versions of the database: 0 when indexedDB holds no database of the
\* name yet.  probe.obj.version is the version indexedDB holds, with the
\* object store storeName when it is not 0; probe.obj.dbVersion is the
\* store's dbVersion.
MaxVersion == 2

\* indexedDB.open(dbName, dbVersion) of a database at that version: no
\* upgrade is needed.
KvOpenCurrent(id) ==
  /\ probe.obj.version = probe.obj.dbVersion
  /\ KvOpenSuccess(id)

\* indexedDB.open(dbName, dbVersion) with no database of the name:
\* onupgradeneeded creates the object store and the open succeeds.
KvUpgradeCreates(id) ==
  /\ id \in DOMAIN tasks /\ tasks[id].opening
  /\ probe.obj.version = 0
  /\ probe' = [probe EXCEPT !.obj.version = probe.obj.dbVersion]
  /\ db' = "open"
  /\ txns' = Append(txns, [owner |-> id, mode |-> tasks[id].want[1].mode,
                           reqs |-> tasks[id].want[1].reqs])
  /\ tasks' = [tasks EXCEPT ![id].opening = FALSE, ![id].want = <<>>]
  /\ UNCHANGED <<driver, now, gcIntervalMs, ls, idb, last, ledger>>

\* indexedDB.open(dbName, dbVersion) of a database at a lower version:
\* onupgradeneeded calls createObjectStore(storeName), the object store
\* exists, ConstraintError is thrown in the handler, the upgrade transaction
\* aborts, the database stays as it was and request.onerror rejects.
KvUpgradeThrows(id) ==
  /\ 0 < probe.obj.version /\ probe.obj.version < probe.obj.dbVersion
  /\ KvOpenError(id)

\* indexedDB.open(dbName, dbVersion) of a database at a higher version fails
\* with VersionError.
KvOpenVersionError(id) ==
  /\ probe.obj.version > probe.obj.dbVersion
  /\ KvOpenError(id)

\* One createKvStore of some dbVersion over what an earlier session left
\* under some version, its calls awaited.  Every set writes "v1" with the
\* delta MaxDelta.
VersionInit ==
  /\ InitMedium({"kv"})
  /\ \E version \in 0..MaxVersion, dbVersion \in 1..MaxVersion :
       /\ version = 0 => idb = EmptyStorage
       /\ probe = [NoProbe EXCEPT
                     !.obj = [version |-> version, dbVersion |-> dbVersion]]

VersionNext ==
  \/ Tick
  \/ \E key \in KvKeys : KvSet(key, "v1", <<MaxDelta>>)
  \/ \E key \in KvKeys : KvGetStoredObject("get", key)
  \/ KvSize
  \/ \E id \in TaskIds : KvOpenCurrent(id)
  \/ \E id \in TaskIds : KvUpgradeCreates(id)
  \/ \E id \in TaskIds : KvUpgradeThrows(id)
  \/ \E id \in TaskIds : KvOpenVersionError(id)
  \/ \E i \in 1..Len(txns) : KvPutSuccess(i)
  \/ \E i \in 1..Len(txns) : KvGetSuccess(i)
  \/ \E i \in 1..Len(txns), tcb \in {now, now + 1} : KvCursorSuccess(i, tcb)
  \/ \E i \in 1..Len(txns) : KvDeleteComplete(i)

VersionSpec == VersionInit /\ [][VersionNext]_vars

\* ---------------------------------------------------------------- the watermark keys alone
\* Names of databases and stores, one character a token, with and without
\* ':' and 'v<digits>', and database versions as their decimal text.
Names == {<<"a">>, <<"v", "1">>, <<"a", ":", "v", "1", ":", "a">>}
Versions == {<<"1">>, <<"2">>}

\* The identities of stores: createKvStore(dbName, {dbVersion, storeName}),
\* and new LocalStore(storeName), which has no database and no version.
KvIdentities == [dbName : Names, dbVersion : Versions, storeName : Names]
LIdentities == [dbName : {<<>>}, dbVersion : {<<>>}, storeName : Names]

IdentInit ==
  /\ driver \in {"local", "kv"}
  /\ now = 1
  /\ gcIntervalMs = 1
  /\ ls = EmptyStorage /\ idb = EmptyStorage
  /\ db = "unset" /\ txns = <<>> /\ tasks = EmptyStorage
  /\ last = NoCall
  /\ ledger = [k \in {} |-> NoWrite]
  /\ \E a, b \in IF driver = "kv" THEN KvIdentities ELSE LIdentities :
       probe = [NoProbe EXCEPT !.obj = [a |-> a, b |-> b]]

\* Two LocalStores are constructed.
L_Construct ==
  /\ driver = "local" /\ ~probe.ran
  /\ probe' = [probe EXCEPT
       !.ran = TRUE,
       !.out = [a |-> L_gcMsStorageKeyOf(probe.obj.a.storeName),
                b |-> L_gcMsStorageKeyOf(probe.obj.b.storeName)]]
  /\ UNCHANGED <<driver, now, gcIntervalMs, ls, last, ledger>> /\ KvUnchanged

\* Two createKvStore stores are constructed.
Kv_Construct ==
  /\ driver = "kv" /\ ~probe.ran
  /\ probe' = [probe EXCEPT
       !.ran = TRUE,
       !.out = [a |-> Kv_gcMsStorageKeyOf(probe.obj.a.dbName,
                                          probe.obj.a.dbVersion,
                                          probe.obj.a.storeName),
                b |-> Kv_gcMsStorageKeyOf(probe.obj.b.dbName,
                                          probe.obj.b.dbVersion,
                                          probe.obj.b.storeName)]]
  /\ UNCHANGED <<driver, now, gcIntervalMs, ls, last, ledger>> /\ KvUnchanged

IdentNext == L_Construct \/ Kv_Construct

IdentSpec == IdentInit /\ [][IdentNext]_vars

\* ---------------------------------------------------------------- two stores of one database
\* A second createKvStore of the same dbName and dbVersion with another
\* storeName.  probe.obj.stores are the object stores the database holds,
\* none when indexedDB holds no database of the name yet; probe.obj.sibling
\* tells what became of the second store's first call.
SiblingStoreName == <<"kv2">>

\* The object stores of the database after indexedDB.open(dbName, dbVersion)
\* by the store named storeName: with no database of the name,
\* onupgradeneeded creates that one object store; a database at the version
\* asked for fires no upgrade and stays as it is.
OpenedBy(stores, storeName) == IF stores = {} THEN {storeName} ELSE stores

\* indexedDB.open succeeded for the call `id`: the memo is set.  The call
\* goes on to db.transaction(storeName, mode).
KvOpenStore(id) ==
  /\ id \in DOMAIN tasks /\ tasks[id].opening
  /\ probe' = [probe EXCEPT !.obj.stores = OpenedBy(@, KvStoreName)]
  /\ db' = "open"
  /\ txns' = Append(txns, [owner |-> id, mode |-> tasks[id].want[1].mode,
                           reqs |-> tasks[id].want[1].reqs])
  /\ tasks' = [tasks EXCEPT ![id].opening = FALSE, ![id].want = <<>>]
  /\ UNCHANGED <<driver, now, gcIntervalMs, ls, idb, last, ledger>>

\* db.transaction(storeName, mode) of a database that holds no object store
\* of that name throws NotFoundError inside the executor of transact's
\* promise: the promise rejects and no transaction exists.
KvTransactionNotFound(i) ==
  /\ i \in DOMAIN txns
  /\ KvStoreName \notin probe.obj.stores
  /\ txns' = DropTxn(txns, i)
  /\ tasks' = RemoveTask(tasks, txns[i].owner)
  /\ last' = Returned(Rejected(tasks[txns[i].owner]))
  /\ UNCHANGED <<probe, driver, now, gcIntervalMs, ls, db, idb, ledger>>

\* A request of a transaction on the object store storeName is served.
KvStoreRequest(i) ==
  /\ KvStoreName \in probe.obj.stores
  /\ \/ KvPutSuccess(i)
     \/ KvGetSuccess(i)
     \/ KvCursorSuccess(i, now)
     \/ KvDeleteComplete(i)

\* The first call of the second store: its open, and its
\* db.transaction(SiblingStoreName, mode).
SiblingFirstUse ==
  /\ probe.obj.sibling = "unused"
  /\ LET stores == OpenedBy(probe.obj.stores, SiblingStoreName)
     IN  probe' = [probe EXCEPT
                     !.obj.stores = stores,
                     !.obj.sibling = IF SiblingStoreName \in stores
                                     THEN "usable" ELSE "notFound"]
  /\ UNCHANGED <<driver, now, gcIntervalMs, ls, last, ledger>> /\ KvUnchanged

\* Two createKvStore of one database over what an earlier session left: no
\* database, or the database either store created on its first use.  The
\* calls of the first store are awaited; every set writes "v1" with the
\* delta MaxDelta.
StoresInit ==
  /\ InitMedium({"kv"})
  /\ \E stores \in {{}, {KvStoreName}, {SiblingStoreName}} :
       /\ KvStoreName \notin stores => idb = EmptyStorage
       /\ probe = [NoProbe EXCEPT
                     !.obj = [stores |-> stores, sibling |-> "unused"]]

StoresNext ==
  \/ Tick
  \/ \E key \in KvKeys : KvSet(key, "v1", <<MaxDelta>>)
  \/ \E key \in KvKeys : KvGetStoredObject("get", key)
  \/ KvSize
  \/ \E id \in TaskIds : KvOpenStore(id)
  \/ \E i \in 1..Len(txns) : KvTransactionNotFound(i)
  \/ \E i \in 1..Len(txns) : KvStoreRequest(i)
  \/ SiblingFirstUse

StoresSpec == StoresInit /\ [][StoresNext]_vars

\* ---------------------------------------------------------------- the shared configuration
\* LocalStoreConfig / KvStoreConfig, the object the default store read its
\* settings from when the module was loaded, is probe.obj.  The default
\* store is constructed with no options, so its defaultExpiryMs and
\* gcIntervalMs are the values the object held at that moment.
ConfigFields == {"expiryMs", "gcIntervalMs"}

\* The arguments of configureLocalStore / configureKvStore: some of the
\* fields with new values.
PartialConfigs ==
  UNION {[S -> {1, MaxDelta}] : S \in (SUBSET ConfigFields) \ {{}}}

ObjectAssign(target, source) ==
  [f \in DOMAIN target |-> IF f \in DOMAIN source THEN source[f] ELSE target[f]]

\* configureLocalStore(config) / configureKvStore(config), or assignments to
\* the fields of the object: the object changes and nothing else does.  The
\* application calls it between its calls of the store.
configure(config) ==
  /\ NoUserTask
  /\ probe' = [probe EXCEPT !.obj = ObjectAssign(@, config), !.ran = TRUE]
  /\ UNCHANGED <<driver, now, gcIntervalMs, ls, last, ledger>> /\ KvUnchanged

\* The default store of either kind and the shared configuration it was
\* constructed from.  Every set writes "v1" and passes no delta.
ConfigInit ==
  /\ InitMedium({"local", "kv"})
  /\ probe = [NoProbe EXCEPT
                !.obj = [expiryMs |-> defaultExpiryMs,
                         gcIntervalMs |-> gcIntervalMs]]

ConfigNext ==
  \/ Tick
  \/ \E config \in PartialConfigs : configure(config)
  \/ \E ord \in KeyOrders : LSet(<<"a">>, "v1", <<>>, ord)
  \/ \E ord \in KeyOrders : LGetStoredObject(<<"a">>, ord)
  \/ \E ord \in KeyOrders : LGc(ord)
  \/ KvSet(<<"a">>, "v1", <<>>)
  \/ KvGetStoredObject("getStoredObject", <<"a">>)
  \/ KvGc
  \/ \E id \in TaskIds : KvOpenSuccess(id)
  \/ \E i \in 1..Len(txns) : KvPutSuccess(i)
  \/ \E i \in 1..Len(txns) : KvGetSuccess(i)
  \/ \E i \in 1..Len(txns), tcb \in {now, now + 1} : KvCursorSuccess(i, tcb)
  \/ \E i \in 1..Len(txns) : KvDeleteComplete(i)

ConfigSpec == ConfigInit /\ [][ConfigNext]_vars

\* ---------------------------------------------------------------- LocalStore, one clock read at a time
\* A call of LocalStore is synchronous, yet Date.now() is read again at each
\* validation, each gc() and each watermark write, and the clock may have
\* moved between two reads.  Here forEach runs one key a step: probe.obj.stack
\* holds the forEach loops in progress, the innermost last, each with its
\* callback (cb: "size" counts, "gcNow" deletes what has expired) and the
\* keys of its Object.keys snapshot still to visit; probe.obj.sweeps counts
\* the gcNow() invocations since the application's call began.
Frame(cb, keys) == [cb |-> cb, keys |-> keys]

Top(stack) == stack[Len(stack)]

Pop(stack) == SubSeq(stack, 1, Len(stack) - 1)

\* The loop on top of the stack moves on to its next key.
Advance(stack) == [stack EXCEPT ![Len(stack)].keys = Tail(@)]

\* The application calls size() or gcNow(): gcNow writes the watermark, then
\* forEach takes its snapshot of the keys.
LForEachCall(cb, ord) ==
  /\ driver = "local" /\ MayCall
  /\ probe.obj.stack = <<>>
  /\ ls' = IF cb = "gcNow" THEN L_setLastGcMs(ls, now) ELSE ls
  /\ probe' = [probe EXCEPT
                 !.obj = [stack |-> <<Frame(cb, ObjectKeys(ls', ord))>>,
                          sweeps |-> IF cb = "gcNow" THEN 1 ELSE 0,
                          op |-> cb, t0 |-> now]]
  /\ UNCHANGED <<driver, now, gcIntervalMs, last, ledger>> /\ KvUnchanged

\* One turn of the loop of forEach: the key is skipped when it lacks the
\* prefix; else getStoredObject reads it.  No text or an empty one, and a
\* valid entry, go on to the next key (the callback of gcNow deletes an
\* entry that has expired by now).  A text that does not parse and an invalid
\* or expired entry are handed to delete() under the raw key, then gc() runs:
\* it seeds a missing watermark, returns when the sweep is not due, and else
\* calls gcNow(), which writes the watermark and starts a forEach of its own.
LForEachVisit(ord) ==
  /\ probe.obj.stack # <<>> /\ Top(probe.obj.stack).keys # <<>>
  /\ LET stack == probe.obj.stack
         k == Head(Top(stack).keys)
         key == slice(k, Len(keyPrefix))
         raw == keyPrefix \o key
         stored == getItem(ls, raw)
         parsed == JSONParse(stored)
         obj == L_validateStoredObject(parsed, now)
         deleted == L_delete([ls |-> ls, sweeps |-> 0], raw).ls
         lastGcMs == L_lastGcMs(deleted)
     IN  IF ~startsWith(k, keyPrefix) \/ stored = NoItem \/ stored = EmptyText
         THEN /\ ls' = ls
              /\ probe' = [probe EXCEPT !.obj.stack = Advance(stack)]
         ELSE IF parsed.type # "SyntaxError" /\ obj # NoObj
         THEN /\ ls' = IF Top(stack).cb = "gcNow" /\ now >= obj.expiryMs
                       THEN L_delete([ls |-> ls, sweeps |-> 0], key).ls
                       ELSE ls
              /\ probe' = [probe EXCEPT !.obj.stack = Advance(stack)]
         ELSE IF lastGcMs = 0
         THEN /\ ls' = L_setLastGcMs(deleted, now)
              /\ probe' = [probe EXCEPT !.obj.stack = Advance(stack)]
         ELSE IF now < lastGcMs + gcIntervalMs
         THEN /\ ls' = deleted
              /\ probe' = [probe EXCEPT !.obj.stack = Advance(stack)]
         ELSE /\ ls' = L_setLastGcMs(deleted, now)
              /\ probe' = [probe EXCEPT
                             !.obj.stack = Append(Advance(stack),
                                             Frame("gcNow", ObjectKeys(ls', ord))),
                             !.obj.sweeps = @ + 1]
  /\ UNCHANGED <<driver, now, gcIntervalMs, last, ledger>> /\ KvUnchanged

\* The loop on top of the stack is over: gcNow writes the watermark again
\* and returns to the gc() that called it, or to the application.
LForEachReturn ==
  /\ probe.obj.stack # <<>> /\ Top(probe.obj.stack).keys = <<>>
  /\ ls' = IF Top(probe.obj.stack).cb = "gcNow" THEN L_setLastGcMs(ls, now)
                                                ELSE ls
  /\ probe' = [probe EXCEPT !.obj.stack = Pop(@)]
  /\ last' = IF Len(probe.obj.stack) = 1
             THEN Returned([NoCall EXCEPT !.st = "L", !.op = probe.obj.op,
                              !.t0 = probe.obj.t0, !.t1 = now,
                              !.sweeps = probe.obj.sweeps])
             ELSE last
  /\ UNCHANGED <<driver, now, gcIntervalMs, ledger>> /\ KvUnchanged

\* One LocalStore over what an earlier session left, used through size() and
\* gcNow(), with a clock that moves while a call runs.
StepInit ==
  /\ InitMedium({"local"})
  /\ probe = [NoProbe EXCEPT
                !.obj = [stack |-> <<>>, sweeps |-> 0, op |-> "none", t0 |-> 0]]

StepNext ==
  \/ Tick
  \/ \E cb \in {"size", "gcNow"}, ord \in KeyOrders : LForEachCall(cb, ord)
  \/ \E ord \in KeyOrders : LForEachVisit(ord)
  \/ LForEachReturn

StepSpec == StepInit /\ [][StepNext]_vars

\* ---------------------------------------------------------------- two LocalStores on one medium
\* A second LocalStore, named probe.obj.storeName, on the localStorage of the
\* first.  Of the second store the model carries its first call, a set of
\* OtherKey: the entry goes under the store's own prefix, and its gc() finds
\* no watermark of that store and writes one.  probe.obj.wrote tells that
\* the call was made.
OtherSet ==
  /\ driver = "local" /\ ~probe.obj.wrote
  /\ LET storeName == probe.obj.storeName
         obj == [value |-> "v1", storedMs |-> now, expiryMs |-> now + MaxDelta]
         stored == setItem(ls, keyPrefixOf(storeName) \o OtherKey,
                           JSONStringify(obj))
     IN  ls' = setItem(stored, L_gcMsStorageKeyOf(storeName), NumberToString(now))
  /\ probe' = [probe EXCEPT !.obj.wrote = TRUE]
  /\ UNCHANGED <<driver, now, gcIntervalMs, last, ledger>> /\ KvUnchanged

\* The first LocalStore and a second one of another name.
NamespaceInit ==
  /\ InitMedium({"local"})
  /\ \E storeName \in OtherStoreNames :
       probe = [NoProbe EXCEPT
                  !.obj = [storeName |-> storeName, wrote |-> FALSE]]

NamespaceNext ==
  \/ Tick
  \/ OtherSet
  \/ \E key \in Keys, ord \in KeyOrders : LSet(key, "v1", <<MaxDelta>>, ord)
  \/ \E key \in Keys, ord \in KeyOrders : LGetStoredObject(key, ord)
  \/ \E keys \in KeyLists(Keys) : LDelete(keys)
  \/ \E ord \in KeyOrders : LSize(ord)
  \/ \E ord \in KeyOrders : LClear(ord)
  \/ \E ord \in KeyOrders : LGc(ord)
  \/ \E ord \in KeyOrders : LGcNow(ord)

NamespaceSpec == NamespaceInit /\ [][NamespaceNext]_vars

\* ------------------------------------------------------------------ properties
\* The step in which a call of the application returns.
Returns(op) == last'.n = last.n + 1 /\ last'.op = op

\* The entry stored under a LocalStore key, read as getStoredObject reads it
\* at time t: NoObj when it is missing, invalid or expired.
LiveAt(store, key, t) ==
  LET stored == getItem(store, keyPrefix \o key)
  IN  IF stored = NoItem THEN NoObj
      ELSE L_validateStoredObject(JSONParse(stored), t)

\* C1: in both stores, set(key, value, delta) followed at once by get(key),
\* with no time elapsing and no call in between, returns the value that was
\* set.  Stated for a positive delta and a value JSON carries unchanged; the
\* claim asks it of every delta and every value other than undefined.
C1_SetThenGet ==
  [][(/\ Returns("get") /\ last.op = "set" /\ last'.key = last.key
      /\ last.arg = "v1" /\ last.delta > 0
      /\ last'.t1 = last.t0)
     => last'.ret = last.arg]_vars

\* C2: in both stores, after set(key, v, delta) at time T with no later write
\* to key, get(key) returns v at every time before T + delta and absent at
\* T + delta and every later time.
C2_ExpirationBoundary ==
  (/\ last.op = "get"
   /\ ledger[last.key].op = "set" /\ ledger[last.key].value = "v1"
   /\ ledger[last.key].expiryMs > ledger[last.key].storedMs)
  => /\ last.t1 < ledger[last.key].expiryMs => last.ret = "v1"
     /\ last.t0 >= ledger[last.key].expiryMs => last.ret = "undefined"

\* C3: LocalStore: when get or getStoredObject finds the entry of its key
\* expired or invalid, and when forEach (here under size) meets such an
\* entry, the raw key keyPrefix + key is gone from localStorage when the
\* call returns.
C3_LocalPhysicalRemoval ==
  /\ (last.st = "L" /\ last.op \in {"get", "getStoredObject"} /\ last.purged)
       => ~Found(ls, last.key)
  /\ (last.st = "L" /\ last.op = "size")
       => \A key \in Keys : Found(ls, key) => LiveAt(ls, key, last.t1) # NoObj


\* C4: kv store: when get or getStoredObject has read a record that is
\* expired or invalid, the record is gone from the object store by the time
\* the call resolves, and it resolves with absent.
C4_KvReadDeletes ==
  (/\ last.st = "K" /\ last.op \in {"get", "getStoredObject"}
   /\ last.purged /\ NoUserTask)
  => last.key \notin DOMAIN idb /\ last.ret = "undefined"

C4_Witness ==
  /\ last.st = "K" /\ last.op = "get" /\ last.purged /\ NoUserTask
  /\ last.key \notin DOMAIN idb
  /\ ledger[last.key].op = "set" /\ last.t1 >= ledger[last.key].expiryMs

\* C5: in both stores, when gcNow() has completed, no record that was expired
\* or invalid when the sweep started is still stored.
C5_GcNowRemovesExpired ==
  (last.op = "gcNow" /\ NoUserTask)
  => IF last.st = "L"
     THEN \A key \in Keys : Found(ls, key) => LiveAt(ls, key, last.t0) # NoObj
     ELSE \A k \in DOMAIN idb : Kv_validateStoredObject(idb[k], last.t0) # NoObj

\* C6: in both stores, with no other call of the application in flight,
\* gcNow() removes no live entry.
C6_GcNowKeepsLive ==
  [][/\ (driver = "local" /\ Returns("gcNow"))
          => \A key \in Keys :
               LiveAt(ls, key, now) # NoObj
                 => getItem(ls', keyPrefix \o key) = getItem(ls, keyPrefix \o key)
     /\ (\E id \in DOMAIN tasks :
            /\ tasks[id].op = "gcNow" /\ tasks[id].pc = "gcDel"
            /\ id \notin DOMAIN tasks')
          => \A k \in (DOMAIN idb) \ (DOMAIN idb') :
               Kv_validateStoredObject(idb[k], now) = NoObj]_vars


\* The watermark of the store in use, 0 when none is stored.
Watermark(store) ==
  IF driver = "local" THEN L_lastGcMs(store) ELSE Kv_getLastGcMs(store)

\* The step in which the application calls gc(): LocalStore's gc() returns
\* in it; the kv store's gc() either returns in it or starts its sweep in it.
AppGcCall ==
  \/ driver = "local" /\ Returns("gc")
  \/ /\ driver = "kv" /\ NoUserTask
     /\ \/ Returns("gc")
        \/ \E id \in (DOMAIN tasks') \ (DOMAIN tasks) :
             tasks'[id].op = "gc" /\ tasks'[id].user

\* The kv calls that enter gcNow() in this step.
SweepsStarted ==
  {id \in DOMAIN tasks' :
     tasks'[id].sweeping /\ (id \notin DOMAIN tasks \/ ~tasks[id].sweeping)}

\* The number of gcNow() invocations the gc() of this step makes.
GcSweeps ==
  IF driver = "local" THEN last'.sweeps ELSE Cardinality(SweepsStarted)

NothingChanged == ls' = ls /\ idb' = idb /\ txns' = txns /\ tasks' = tasks

\* C7: in both stores, gc() with no watermark stored writes the current time
\* as the watermark, does not sweep and leaves every entry alone; a second
\* gc() at the same instant does not sweep and changes nothing.
C7_GcSeedsWatermark ==
  [][AppGcCall =>
       /\ Watermark(ls) = 0 =>
            /\ Watermark(ls') = now /\ GcSweeps = 0
            /\ ls' = IF driver = "local" THEN L_setLastGcMs(ls, now)
                                         ELSE Kv_setLastGcMs(ls, now)
            /\ idb' = idb /\ txns' = txns /\ tasks' = tasks
       /\ (last.op = "gc" /\ last.sweeps = 0 /\ last.t0 = now
             /\ Watermark(ls) = now) =>
            GcSweeps = 0 /\ NothingChanged]_vars

C7_Witness ==
  /\ last.op = "gc" /\ last.n = 1 /\ last.sweeps = 0
  /\ last.t0 > 1 /\ Watermark(ls) = last.t0

C9_GcNowWatermark ==
  [][/\ (Returns("gcNow") \/ (Returns("gc") /\ last'.sweeps = 1)) =>
          /\ Watermark(ls') = last'.t1
          /\ last'.t0 <= Watermark(ls') /\ Watermark(ls') <= last'.t1
     /\ \A id \in DOMAIN tasks' :
          tasks'[id].sweeping =>
            tasks'[id].w0 <= Watermark(ls') /\ Watermark(ls') <= now']_vars

C9_Witness ==
  /\ last.st = "K" /\ last.op = "gcNow" /\ last.t0 < last.t1
  /\ idb = EmptyStorage /\ NoUserTask
  /\ Watermark(ls) = last.t1

\* C10: kv store: while a sweep is in flight and gcIntervalMs has not elapsed
\* since its first watermark write (at w0), no gc() starts a second sweep,
\* whether the application calls it or set and getStoredObject do.
C10_NoSecondSweep ==
  [][(\E id \in DOMAIN tasks :
        tasks[id].sweeping /\ now < tasks[id].w0 + gcIntervalMs)
     => \A j \in SweepsStarted : tasks'[j].op # "gc"]_vars

C10_Witness ==
  /\ last.st = "K" /\ last.op = "gc" /\ last.sweeps = 0
  /\ \E id \in DOMAIN tasks :
       /\ tasks[id].sweeping /\ tasks[id].w0 <= last.t0
       /\ last.t0 < tasks[id].w0 + gcIntervalMs
       /\ now = last.t0


\* The record stored under a kv key, read as getStoredObject reads it at
\* time t: NoObj when it is missing, invalid or expired.
KvLiveAt(store, key, t) ==
  IF key \in DOMAIN store THEN Kv_validateStoredObject(store[key], t) ELSE NoObj

\* The step in which a kv sweep finishes its batch delete.
SweepDeletes ==
  \E id \in DOMAIN tasks : tasks[id].pc = "gcDel" /\ id \notin DOMAIN tasks'

\* C11: GC is invisible to readers: a gc() or gcNow() of the application, and
\* the batch delete of any kv sweep, leave what getStoredObject would return
\* for every key as it was.
C11_GcInvisible ==
  [][/\ (driver = "local" /\ (Returns("gc") \/ Returns("gcNow")))
          => \A key \in Keys : LiveAt(ls', key, now) = LiveAt(ls, key, now)
     /\ SweepDeletes
          => \A key \in KvKeys :
               KvLiveAt(idb', key, now) = KvLiveAt(idb, key, now)]_vars


\* C12: in both stores, size() returns the number of entries that are valid
\* and not expired at the time of the call (for the kv store: when the clock
\* did not move during the call).
C12_SizeCountsLive ==
  [][Returns("size") =>
       IF driver = "local"
       THEN last'.count =
              Cardinality({key \in Keys : LiveAt(ls, key, now) # NoObj})
       ELSE last'.t0 = last'.t1 =>
              last'.count =
                Cardinality({key \in KvKeys : KvLiveAt(idb, key, now) # NoObj})]_vars


\* C13: in both stores, get and getStoredObject return absent for a key that
\* was never written through the store, whatever else was done to the store.
C13_NeverWrittenAbsent ==
  (last.op \in {"get", "getStoredObject"} /\ ledger[last.key].op = "none")
  => last.ret = "undefined" /\ ~last.purged

C13_Witness ==
  /\ last.op = "get" /\ last.n = 2 /\ ledger[last.key].op = "none"
  /\ last.ret = "undefined"
  /\ \E k \in DOMAIN ledger : ledger[k].op = "set" /\ ledger[k].expiryMs > last.t1

\* C14: in both stores, when delete(key) or delete(key[]) returns, no key it
\* was given has an entry, every other entry and the GC watermark are as they
\* were (so deleting a key without an entry changes nothing), and a later
\* get of a key whose last write is a delete returns undefined.
C14_DeleteIdempotent ==
  [][/\ Returns("delete") =>
          LET ks == {last'.keys[n] : n \in DOMAIN last'.keys}
          IN  IF driver = "local"
              THEN /\ \A k \in ks : getItem(ls', keyPrefix \o k) = NoItem
                   /\ \A raw \in (DOMAIN ls \cup DOMAIN ls') \ {keyPrefix \o k : k \in ks} :
                        getItem(ls', raw) = getItem(ls, raw)
              ELSE /\ \A k \in ks : k \notin DOMAIN idb'
                   /\ \A k \in KvKeys \ ks :
                        /\ (k \in DOMAIN idb') = (k \in DOMAIN idb)
                        /\ k \in DOMAIN idb => idb'[k] = idb[k]
                   /\ ls' = ls
     /\ (Returns("get") /\ ledger'[last'.key].op = "delete")
          => last'.ret = "undefined"]_vars

\* A delete of two keys has returned as the second call of the run, and
\* localStorage still holds something it had to leave alone.
C14_Witness ==
  /\ last.op = "delete" /\ Len(last.keys) = 2 /\ last.n = 2
  /\ \E k \in DOMAIN ledger : ledger[k].op = "delete" /\ k = last.keys[2]
  /\ ls # EmptyStorage

\* C15: in both stores, when set(key, value, delta) returns, the store holds
\* one entry for the key and it is the one just written: the entry under the
\* key, validated at the clock reading of this set, carries the new value with
\* storedMs and expiryMs of this set.  Stated for a positive delta and a value
\* JSON carries unchanged.
C15_SetReplaces ==
  [][(Returns("set") /\ last'.arg = "v1" /\ last'.delta > 0) =>
       LET e == IF driver = "local" THEN LiveAt(ls', last'.key, last'.t0)
                                    ELSE KvLiveAt(idb', last'.key, last'.t0)
       IN  /\ e # NoObj
           /\ e.value = last'.arg
           /\ e.storedMs = last'.t0
           /\ e.expiryMs = last'.t0 + last'.delta]_vars

\* C16: in both stores set returns the value it was given, whatever the
\* value (null, undefined and NaN included), and a get of a key whose last
\* write is set(key, undefined) returns undefined.
C16_SetReturnsValue ==
  [][/\ Returns("set") => last'.ret = last'.arg
     /\ (/\ Returns("get")
         /\ ledger'[last'.key].op = "set"
         /\ ledger'[last'.key].value = "undefined")
          => last'.ret = "undefined"]_vars

\* set(key, undefined) with a positive delta returned undefined, and a get of
\* the key before the expiry time returned undefined.
C16_Witness ==
  /\ last.op = "get" /\ last.ret = "undefined"
  /\ ledger[last.key].op = "set" /\ ledger[last.key].value = "undefined"
  /\ last.t1 < ledger[last.key].expiryMs

\* C17: in both stores, an entry that getStoredObject returns, or that
\* forEach hands to its callback, belongs to a key whose last write is a set,
\* and carries storedMs = the time of that set and expiryMs = that time plus
\* the delta given to it, or plus the store's default expiry when none was
\* given.
C17_Timestamps ==
  /\ (last.op = "getStoredObject" /\ last.ret # "undefined")
       => /\ ledger[last.key].op = "set"
          /\ last.storedMs = ledger[last.key].storedMs
          /\ last.expiryMs = ledger[last.key].expiryMs
  /\ \A n \in DOMAIN last.seen :
       /\ ledger[last.seen[n].key].op = "set"
       /\ last.seen[n].storedMs = ledger[last.seen[n].key].storedMs
       /\ last.seen[n].expiryMs = ledger[last.seen[n].key].expiryMs

\* forEach handed over two entries written at different times, one of them
\* by a set that gave no delta.
C17_Witness ==
  /\ last.op = "size" /\ Len(last.seen) = 2
  /\ last.seen[1].storedMs # last.seen[2].storedMs
  /\ \E n \in DOMAIN last.seen :
       /\ last.seen[n].storedMs > 1
       /\ last.seen[n].expiryMs = last.seen[n].storedMs + defaultExpiryMs

C19_CorruptDeleted ==
  [][(/\ driver = "local"
      /\ Returns("get") \/ Returns("getStoredObject")
      /\ Found(ls, last'.key)
      /\ JSONParse(getItem(ls, keyPrefix \o last'.key)).type = "SyntaxError")
     => /\ last'.ret = "undefined"
        /\ ~Found(ls', last'.key)]_vars

\* C20: createKvStore: one instance calls indexedDB.open at most once, so at
\* no moment are two of its calls each waiting for an open request of their
\* own, also when the calls are issued without awaiting one another.
C20_OneOpen ==
  Cardinality({id \in DOMAIN tasks : tasks[id].opening}) <= 1

\* A call that was waiting for its indexedDB.open leaves without the open
\* having succeeded.
OpenFails ==
  \E id \in DOMAIN tasks : tasks[id].opening /\ id \notin DOMAIN tasks'

\* C21: createKvStore: when indexedDB.open fails, the call waiting on it
\* rejects and the connection memo is left as it was (unset when no open has
\* succeeded); a call issued while the memo is unset calls indexedDB.open
\* again, and a call resolves only with the memo set.
C21_OpenFailure ==
  [][/\ OpenFails => /\ last'.n = last.n + 1 /\ last'.rejected
                      /\ db' = db /\ idb' = idb
     /\ \A id \in (DOMAIN tasks') \ (DOMAIN tasks) :
          db = "unset" => tasks'[id].opening
     /\ (last'.n = last.n + 1 /\ ~last'.rejected /\ last'.op \notin {"gc"})
          => db' = "open"]_vars

\* After a failed open, a later get opened the database and returned the
\* value an earlier session had stored.
C21_Witness ==
  /\ last.openFailed /\ ~last.rejected /\ last.op = "get" /\ last.ret = "v1"
  /\ db = "open"

\* C22: createKvStore: a call whose request reported an error, or whose
\* transaction aborted, rejects; in particular set does not resolve with its
\* value when the transaction of its write aborted.
C22_AbortRejects ==
  last.aborted => last.rejected

\* C23: createKvStore: when set resolves with its value the record it wrote
\* is in the object store; while the call is still a pending set it has
\* started no sweep; and when set resolves having started a sweep, that sweep
\* is still under way, and its later failure leaves set resolved.
C23_SetResolution ==
  [][/\ (driver = "kv" /\ Returns("set") /\ ~last'.rejected)
          => /\ last'.ret = last'.arg
             /\ last'.key \in DOMAIN idb'
             /\ idb'[last'.key].value = last'.arg
             /\ idb'[last'.key].storedMs = last'.t0
             /\ idb'[last'.key].expiryMs = last'.t0 + last'.delta
     /\ \A id \in DOMAIN tasks : tasks[id].op = "set" => ~tasks[id].sweeping
     /\ (driver = "kv" /\ Returns("set") /\ last'.sweeps = 1)
          => \E id \in DOMAIN tasks' :
               tasks'[id].sweeping /\ ~tasks'[id].user /\ tasks'[id].pc = "scan"
     /\ (\E id \in DOMAIN tasks : ~tasks[id].user /\ id \notin DOMAIN tasks')
          => last' = last]_vars

\* The times key is in the list of records a forEach reported.
RECURSIVE Reported(_, _)
Reported(seen, key) ==
  IF seen = <<>> THEN 0
  ELSE (IF Head(seen).key = key THEN 1 ELSE 0) + Reported(Tail(seen), key)

\* C24: forEach of createKvStore awaits each callback before it moves the
\* cursor: a callback is never pending while the cursor request of its
\* forEach is, the callbacks run in cursor order, a forEach that resolves
\* has called back exactly once for every record that is live then, and a
\* forEach is never left with its callback settled, no transaction and its
\* promise pending.
C24_ForEachSerial ==
  [][/\ \A id \in DOMAIN tasks' :
          /\ tasks'[id].pc = "callback"
                => \A i \in DOMAIN txns' : txns'[i].owner # id
          /\ tasks'[id].pc # "stuck"
          /\ \A m, n \in DOMAIN tasks'[id].seen :
                m < n => \E x, y \in DOMAIN KvKeyOrder :
                           /\ x < y
                           /\ KvKeyOrder[x] = tasks'[id].seen[m].key
                           /\ KvKeyOrder[y] = tasks'[id].seen[n].key
     /\ Returns("forEach")
          => \A key \in DOMAIN idb' :
               KvLiveAt(idb', key, now') # NoObj
                 => Reported(last'.seen, key) = 1]_vars


\* The record under key is the envelope of the write w.
StoredAs(key, w) ==
  /\ key \in DOMAIN idb
  /\ idb[key].value = w.value
  /\ idb[key].storedMs = w.storedMs
  /\ idb[key].expiryMs = w.expiryMs

\* C25: with sets of createKvStore issued together, no set rejects, the
\* record under a key is exactly the envelope of the set on that key whose
\* write committed last, and until it expires that entry is stored, for
\* sets on different keys and on the same key alike.
C25_ConcurrentSets ==
  /\ ~last.rejected
  /\ \A key \in KvKeys :
       ledger[key].op = "set"
         => /\ key \in DOMAIN idb => StoredAs(key, ledger[key])
            /\ now < ledger[key].expiryMs => StoredAs(key, ledger[key])


ValueOf(obj) == IF obj = NoObj THEN "undefined" ELSE obj.value

\* C27: an item accessor adds nothing of its own.  For LocalStoreItem the
\* medium after item.set(v) is the medium after store.set(item.key, v,
\* item.defaultExpiryMs), and getStoredObject, get and delete leave the
\* medium and return what the store's operation on item.key does in that
\* state.  For kvStoreItem each call starts exactly the call the store's
\* operation starts, set commits the envelope of store.set(item.key, v,
\* item.defaultExpiryMs), get returns the value stored and live then, and
\* after delete the key is not stored.
C27_ItemIsSugar ==
  [][/\ (driver = "local" /\ last'.n = last.n + 1 /\ last'.item # <<>>)
          => LET item == localStoreItem(last'.key, last'.item[1])
             IN  \E ord \in KeyOrders :
                   LET w == L_set(StartL, ItemKey, last'.arg,
                                  <<item.defaultExpiryMs>>, now, ord,
                                  gcIntervalMs)
                       g == L_getStoredObject(StartL, ItemKey, now, ord,
                                              gcIntervalMs)
                       r == L_get(StartL, ItemKey, now, ord, gcIntervalMs)
                   IN  /\ last'.op = "set" => ls' = w.m.ls
                       /\ last'.op = "getStoredObject"
                            => /\ ls' = g.m.ls
                               /\ last'.ret = ValueOf(g.obj)
                               /\ g.obj # NoObj
                                    => /\ last'.storedMs = g.obj.storedMs
                                       /\ last'.expiryMs = g.obj.expiryMs
                       /\ last'.op = "get"
                            => ls' = r.m.ls /\ last'.ret = r.value
                       /\ last'.op = "delete"
                            => ls' = L_deleteEach(StartL, <<ItemKey>>).ls
     /\ \A id \in (DOMAIN tasks') \ (DOMAIN tasks) :
          tasks'[id].item # <<>>
            => LET item == kvStoreItem(ItemKey, tasks'[id].item[1])
                   call == [tasks'[id] EXCEPT !.item = <<>>]
                   r == IF call.op = "set"
                        THEN Kv_set(id, item.key, call.arg,
                                    item.defaultExpiryMs)
                        ELSE IF call.op = "delete"
                        THEN Kv_delete(id, <<item.key>>)
                        ELSE Kv_getStoredObject(id, call.op, item.key)
               IN  call = r.task /\ txns' = r.txns
     /\ (driver = "kv" /\ last'.n = last.n + 1 /\ last'.item # <<>>)
          => LET item == kvStoreItem(ItemKey, last'.item[1])
             IN  /\ last'.op = "set"
                      => /\ idb' = setItem(idb, item.key,
                                      [type |-> "object", key |-> item.key,
                                       value |-> last'.arg,
                                       storedMs |-> last'.t0,
                                       expiryMs |-> last'.t0 +
                                         OrDefault(item.defaultExpiryMs,
                                                   defaultExpiryMs)])
                         /\ last'.ret = "undefined"
                 /\ last'.op \in {"get", "getStoredObject"}
                      => last'.ret = ValueOf(KvLiveAt(idb, item.key, now))
                 /\ last'.op = "delete" => item.key \notin DOMAIN idb']_vars

\* A get through an accessor returned the value a set of this run wrote at
\* time 2.
C27_Witness ==
  /\ last.n = 2 /\ last.item # <<>> /\ last.op = "get" /\ last.ret = "v1"
  /\ ledger[ItemKey].op = "set" /\ ledger[ItemKey].storedMs = 2


\* C28: clear() removes every record of the store's namespace without
\* validating any: after LocalStore.clear() no raw key with the store's
\* prefix is left, every other raw key holds what it held and no entry was
\* read (no gc ran); after clear() of createKvStore the object store is
\* empty; a size() that follows is 0 and a get that follows returns absent.
C28_ClearRemovesAll ==
  [][/\ (driver = "local" /\ Returns("clear"))
          => /\ \A k \in DOMAIN ls' : ~startsWith(k, keyPrefix)
             /\ \A k \in DOMAIN ls :
                  ~startsWith(k, keyPrefix)
                    => k \in DOMAIN ls' /\ ls'[k] = ls[k]
             /\ last'.sweeps = 0
     /\ (driver = "kv" /\ Returns("clear")) => idb' = EmptyStorage
     /\ (last.op = "clear" /\ Returns("size")) => last'.count = 0
     /\ (last.op = "clear" /\ Returns("get")) => last'.ret = "undefined"]_vars

\* size() returned 0 after a clear() of a store that held a record: in
\* localStorage a text under the raw key of "a", in IndexedDB a record.
C28_Witness ==
  /\ last.n = 2 /\ last.op = "size" /\ last.count = 0
  /\ ledger[<<"a">>].op = "delete"
  /\ driver = "kv" => db = "open"


\* C29: two stores with different identities (database name, version, store
\* name) have different GC watermark keys, whatever ':' and 'v<digits>'
\* their names contain.
C29_WatermarkKeysDistinct ==
  (probe.ran /\ probe.obj.a # probe.obj.b) => probe.out.a # probe.out.b


\* C30: a createKvStore whose dbVersion is higher than the version the
\* database was left at opens: none of its calls rejects; and it behaves as
\* empty: before it has set anything, size() is 0 and get returns absent.
C30_VersionBump ==
  (0 < probe.obj.version /\ probe.obj.version < probe.obj.dbVersion)
    => /\ ~last.rejected
       /\ (last.n = 1 /\ last.op = "size") => last.count = 0
       /\ (last.n = 1 /\ last.op = "get") => last.ret = "undefined"


\* C31: two createKvStore of the same dbName and dbVersion with different
\* storeName are both usable whichever is used first: no call of the one
\* rejects, and the first call of the other finds its object store.
C31_BothStoresUsable ==
  ~last.rejected /\ probe.obj.sibling # "notFound"


\* C32: after the shared configuration was changed, a set of the default
\* store that passes no delta writes with the expiryMs the configuration
\* holds now, and a gc() of the default store with a watermark w sweeps
\* exactly when now >= w + the gcIntervalMs the configuration holds now.
C32_ConfigReadPerOperation ==
  [][probe.ran =>
       /\ Returns("set") => last'.delta = probe.obj.expiryMs
       /\ (AppGcCall /\ Watermark(ls) # 0) =>
            (GcSweeps = 1 <=> now >= Watermark(ls) + probe.obj.gcIntervalMs)]_vars


\* C33: the delete transaction that get / getStoredObject of createKvStore
\* issues after it read an expired or invalid record never removes a record
\* that is live when the delete completes, such as the record a set of the
\* same key committed after the read.
C33_ReadDeleteKeepsNewer ==
  [][\A id \in DOMAIN tasks :
       (tasks[id].pc = "gsoDel"
          /\ (id \notin DOMAIN tasks' \/ tasks'[id].pc # "gsoDel"))
         => KvLiveAt(idb, tasks[id].key, now) = NoObj]_vars


\* C34: when the batch delete of a gcNow() sweep of createKvStore completes,
\* no record under a key of the batch is live at that moment, whatever sets
\* committed since the scan collected the key.
C34_SweepKeepsRewritten ==
  [][\A id \in DOMAIN tasks :
       (tasks[id].pc = "gcDel" /\ id \notin DOMAIN tasks')
         => \A n \in DOMAIN tasks[id].keysToDelete :
              KvLiveAt(idb, tasks[id].keysToDelete[n], now) = NoObj]_vars


\* C35: a gc() of createKvStore reads the watermark, finds it due and writes
\* the new watermark in one step, so a step in which gc() starts a sweep
\* starts one sweep, read a watermark that was due and leaves a later one;
\* the watermark never goes back, so no later gc() reads that watermark
\* again.
C35_OneSweepPerWatermark ==
  [][/\ Watermark(ls') >= Watermark(ls)
     /\ LET started == {id \in SweepsStarted : tasks'[id].op = "gc"}
        IN  started # {}
              => /\ Cardinality(started) = 1
                 /\ Watermark(ls) # 0
                 /\ now >= Watermark(ls) + gcIntervalMs
                 /\ Watermark(ls') = now
                 /\ Watermark(ls') > Watermark(ls)]_vars

\* Two sets issued together have both returned at the same instant with the
\* watermark due: the gc() of the first started the one sweep, which is
\* still scanning, and the gc() of the second started none.
C35_Witness ==
  /\ last.n = 2 /\ last.op = "set" /\ last.sweeps = 0
  /\ Cardinality({id \in DOMAIN tasks : tasks[id].sweeping}) = 1
  /\ \E id \in DOMAIN tasks :
       /\ tasks[id].op = "gc" /\ tasks[id].sweeping /\ tasks[id].pc = "scan"
       /\ tasks[id].w0 = last.t1
       /\ last.t1 >= 1 + gcIntervalMs


\* C36: LocalStore with a positive gcIntervalMs: inside one call of the
\* application at most one gcNow() is started, and while the forEach of a
\* gcNow() runs no other gcNow() is started.
C36_OneSweepPerCall ==
  /\ probe.obj.sweeps <= 1
  /\ Cardinality({i \in DOMAIN probe.obj.stack :
                    probe.obj.stack[i].cb = "gcNow"}) <= 1


\* C37: the promise of a forEach of createKvStore always settles: a forEach
\* that was called is eventually no longer pending, whether its callback
\* returns or throws.
C37_ForEachSettles ==
  \A id \in TaskIds :
    (id \in DOMAIN tasks /\ tasks[id].op = "forEach") ~> (id \notin DOMAIN tasks)


\* C38: once a second LocalStore of another name has written its entry and
\* its watermark, no call of the first store changes or removes either of
\* them, and size() of the first store reports only keys that were written
\* through the first store.
C38_StoresIsolated ==
  [][(probe.obj.wrote /\ last'.n = last.n + 1) =>
       LET storeName == probe.obj.storeName
           k == keyPrefixOf(storeName) \o OtherKey
       IN  /\ getItem(ls', k) = getItem(ls, k)
           /\ getItem(ls', L_gcMsStorageKeyOf(storeName))
                = getItem(ls, L_gcMsStorageKeyOf(storeName))
           /\ Returns("size") =>
                \A n \in DOMAIN last'.seen :
                  ledger[last'.seen[n].key].op # "none"]_vars


\* C39: a set through an item accessor that was created with no expiry, and
\* given no delta, stores the entry with expiryMs = now + the default expiry
\* of the store the accessor is bound to, whatever the shared configuration
\* holds.
C39_ItemUsesStoreDefault ==
  [][(Returns("set") /\ last'.item = << <<>> >>) =>
       IF driver = "local"
       THEN /\ LiveAt(ls', ItemKey, now) # NoObj
            /\ LiveAt(ls', ItemKey, now).expiryMs = now + defaultExpiryMs
       ELSE /\ ItemKey \in DOMAIN idb'
            /\ idb'[ItemKey].expiryMs = last'.t0 + defaultExpiryMs]_vars


====
